---- MODULE Spec2Model ----
(***************************************************************************)
(* A model of the dispatch runtime of the agents-slackbot repository: the  *)
(* thread memory store (ConversationMemory), the intent classifiers, the   *)
(* agent tool loop (AgentBase) and the orchestrators.                      *)
(***************************************************************************)
EXTENDS Integers, Sequences, FiniteSets, TLC

VARIABLES
    conversations,  \* ConversationMemory.conversations: threadId -> context
    appended,       \* history: every message addMessage pushed on the live thread
    now,            \* Date.now()
    lastCall,       \* history: the store operation called last, and its thread
    observed,       \* history: per thread, what its callers have seen of it
    orch,           \* the orchestrator in use: "legacy" (Orchestrator) or "sdk"
    ctx,            \* the AgentContext of the request being dispatched
    pc,             \* position of the dispatch invocation
    target,         \* targetAgent chosen by classifyIntent
    fallbackCalls,  \* calls of the fallback classifier made by this invocation
    fallback,       \* what the last call of the fallback classifier did
    variant,        \* the AgentBase in use: "anthropic" or "openrouter"
    tools,          \* AgentBase.tools: tool name -> registered definition
    invoked,        \* the agents whose handleRequest the orchestrator called
    run,            \* the locals of the running AgentBase.handleRequest
    response,       \* what the last agent invocation returned
    sdk,            \* the locals of the SDK handleRequest
    stages,         \* the notifications given to onStage
    reply,          \* what the dispatch invocation returned to its caller
    invocations,    \* the callers of the store that run interleaved on one thread
    thinking,       \* the Slack message an event handler posted and updates
    animation,      \* the closure of startThinkingAnimation
    handler,        \* position of the Slack event handler
    request,        \* the HTTP request the events endpoint received
    http,           \* position and answer of the events endpoint
    article,        \* the text given to the last call of reviewArticleQuality
    review,         \* the QualityScore the last call returned
    firstReview     \* history: the text and the QualityScore of the first call

storeVars == <<conversations, appended, now, lastCall, observed>>

routeVars == <<orch, ctx, pc, target, fallbackCalls, fallback>>

agentVars == <<variant, tools, invoked, run, response, sdk, stages, reply>>

slackVars == <<thinking, animation, handler>>

httpVars == <<request, http>>

reviewVars == <<article, review, firstReview>>

\* What lies outside the store and the dispatch of one request.
outerVars == <<invocations, slackVars, httpVars, reviewVars>>

vars == <<conversations, appended, now, lastCall, observed, orch, ctx, pc, target, fallbackCalls,
          fallback, variant, tools, invoked, run, response, sdk, stages, reply, invocations,
          thinking, animation, handler, request, http, article, review, firstReview>>

----------------------------------------------------------------------------
(* Thread memory store: src/src/storage/ConversationMemory.ts               *)

TTL == 2 * 60 * 60 * 1000

MAX_MESSAGES == 50

\* Math.floor(this.MAX_MESSAGES * 0.8)
KeepCount == (MAX_MESSAGES * 8) \div 10

\* Bounds of the store model.
MaxAppends == 62
MaxNow == 7200002

Threads == {"T1", "T2"}
StoreAgents == {"scout", "maven"}
NoAgent == "none"
NullAgent == "null"
DataKeys == {"draft", "sources"}
DataBags == UNION {[K -> {1}] : K \in SUBSET DataKeys}
EmptyBag == [k \in {} |-> 1]
\* The clock advances by half the time-to-live, or by one millisecond more.
TickSteps == {TTL \div 2, TTL \div 2 + 1}

\* The callers' turn structure: a user message, then the assistant's reply.
RoleOf(n) == IF n % 2 = 1 THEN "user" ELSE "assistant"

\* Array.prototype.slice(-k)
SliceLast(s, k) == IF Len(s) <= k THEN s ELSE SubSeq(s, Len(s) - k + 1, Len(s))

\* { ...a, ...b }
Spread(a, b) ==
    [k \in (DOMAIN a) \cup (DOMAIN b) |-> IF k \in DOMAIN b THEN b[k] ELSE a[k]]

NewContext(t) ==
    [messages |-> <<>>, currentAgent |-> NullAgent,
     agentData |-> [a \in StoreAgents |-> EmptyBag],
     lastActivityAt |-> now]

Has(t) == t \in DOMAIN conversations

MapSet(m, t, c) == [x \in (DOMAIN m) \cup {t} |-> IF x = t THEN c ELSE m[x]]

MapDelete(m, D) == [x \in (DOMAIN m) \ D |-> m[x]]

\* Mutant: the tail window is the whole cap, so 1 + MAX_MESSAGES are retained.
TrimKeepsCap(msgs) ==
    IF Len(msgs) > MAX_MESSAGES
    THEN <<msgs[1]>> \o SliceLast(msgs, MAX_MESSAGES)
    ELSE msgs

\* Mutant: the head message is not retained, only the tail window.
TrimDropsHead(msgs) ==
    IF Len(msgs) > MAX_MESSAGES
    THEN SliceLast(msgs, KeepCount + 1)
    ELSE msgs

\* The trim of addMessage, lines 77-85.
Trim(msgs) ==
    IF Len(msgs) > MAX_MESSAGES
    THEN <<msgs[1]>> \o SliceLast(msgs, KeepCount)
    ELSE msgs

getMessages(t) == IF Has(t) THEN conversations[t].messages ELSE <<>>

getCurrentAgent(t) == IF Has(t) THEN conversations[t].currentAgent ELSE NullAgent

getAgentData(t, a) == IF Has(t) THEN conversations[t].agentData[a] ELSE EmptyBag

\* Mutant: the last activity of a thread that exists is not refreshed.
getOrCreateNoRefresh(t) ==
    /\ conversations' = IF Has(t) THEN conversations
                        ELSE MapSet(conversations, t, NewContext(t))
    /\ appended' = IF Has(t) THEN appended ELSE [appended EXCEPT ![t] = <<>>]
    /\ UNCHANGED now

\* Mutant: every call starts the thread afresh.
getOrCreateFresh(t) ==
    /\ conversations' = MapSet(conversations, t, NewContext(t))
    /\ appended' = [appended EXCEPT ![t] = <<>>]
    /\ UNCHANGED now

getOrCreate(t) ==
    /\ LET c == IF Has(t) THEN conversations[t] ELSE NewContext(t)
       IN conversations' = MapSet(conversations, t, [c EXCEPT !.lastActivityAt = now])
    /\ appended' = IF Has(t) THEN appended ELSE [appended EXCEPT ![t] = <<>>]
    /\ UNCHANGED now

\* Mutant: a thread that is not in the store is created for the message.
addMessageCreates(t, agent) ==
    /\ Len(appended[t]) < MaxAppends
    /\ LET c == IF Has(t) THEN conversations[t] ELSE NewContext(t)
           m == [role |-> RoleOf(Len(appended[t]) + 1),
                 content |-> Len(appended[t]) + 1]
       IN /\ conversations' =
               MapSet(conversations, t,
                      [c EXCEPT !.messages = Trim(Append(c.messages, m)),
                                !.currentAgent = IF agent # NoAgent THEN agent ELSE @,
                                !.lastActivityAt = now])
          /\ appended' = [appended EXCEPT ![t] = Append(@, m)]
    /\ UNCHANGED now

addMessage(t, agent) ==
    /\ Len(appended[t]) < MaxAppends
    /\ IF ~Has(t)
       THEN UNCHANGED <<conversations, appended>>
       ELSE LET c == conversations[t]
                m == [role |-> RoleOf(Len(appended[t]) + 1),
                      content |-> Len(appended[t]) + 1]
                pushed == Append(c.messages, m)
            IN /\ conversations' =
                    [conversations EXCEPT ![t] =
                        [c EXCEPT !.messages = Trim(pushed),
                                  !.currentAgent =
                                      IF agent # NoAgent THEN agent ELSE @,
                                  !.lastActivityAt = now]]
               /\ appended' = [appended EXCEPT ![t] = Append(@, m)]
    /\ UNCHANGED now

setAgentData(t, agent, data) ==
    /\ IF ~Has(t)
       THEN UNCHANGED conversations
       ELSE conversations' =
                [conversations EXCEPT ![t].agentData[agent] = Spread(@, data)]
    /\ UNCHANGED <<appended, now>>

\* Mutant: clearing one thread empties the whole map.
clearAll(t) ==
    /\ conversations' = MapDelete(conversations, DOMAIN conversations)
    /\ appended' = [x \in Threads |-> <<>>]
    /\ UNCHANGED now

clear(t) ==
    /\ conversations' = MapDelete(conversations, {t})
    /\ appended' = [appended EXCEPT ![t] = <<>>]
    /\ UNCHANGED now

\* Mutant: a thread idle for exactly the time-to-live is expired too.
ExpiredAtTTL == {t \in DOMAIN conversations : now - conversations[t].lastActivityAt >= TTL}

Expired == {t \in DOMAIN conversations : now - conversations[t].lastActivityAt > TTL}

cleanup ==
    /\ conversations' = MapDelete(conversations, Expired)
    /\ appended' = [t \in Threads |-> IF t \in Expired THEN <<>> ELSE appended[t]]
    /\ UNCHANGED now

Tick ==
    /\ \E d \in TickSteps : now + d <= MaxNow /\ now' = now + d
    /\ UNCHANGED <<conversations, appended>>

\* No store operation has been called; nothing is known of a thread.
NoCall == [op |-> "none", thread |-> "none"]

NeverObserved == [at |-> -1, before |-> -1, agentSet |-> FALSE, swept |-> FALSE]

\* The two callers of the store, before their getOrCreate.
Invocations == {"A", "B"}

NoInvocations ==
    invocations = [i \in Invocations |-> [pc |-> "start", calls |-> 0, sent |-> <<>>]]

\* No Slack event is being handled.
NoMessage == [text |-> "none", writes |-> 0]

NoAnimation == [started |-> FALSE, stopped |-> FALSE, cleared |-> FALSE, fired |-> 0,
                inFlight |-> 0, frameIndex |-> 0]

NoHandler == [kind |-> "none", pc |-> "idle", outcome |-> "none", inFlight |-> "none"]

NoSlackEvent ==
    /\ thinking = NoMessage
    /\ animation = NoAnimation
    /\ handler = NoHandler

\* The events endpoint has received nothing.
NoRequest ==
    [endpoint |-> "none", body |-> "none", event |-> "none", timestamp |-> <<>>,
     signature |-> <<>>]

NoAnswer == [pc |-> "idle", status |-> 0, verified |-> FALSE, started |-> {}]

NoHttp ==
    /\ request = NoRequest
    /\ http = NoAnswer

\* reviewArticleQuality has not been called.
NoReview == [called |-> FALSE, issues |-> <<>>]

NoFirstReview == [calls |-> 0, text |-> <<>>, result |-> NoReview, between |-> 0]

NoReviewCall ==
    /\ article = <<>>
    /\ review = NoReview
    /\ firstReview = NoFirstReview

EmptyStore ==
    /\ conversations = [t \in {} |-> NewContext(t)]
    /\ appended = [t \in Threads |-> <<>>]
    /\ now = 0
    /\ lastCall = NoCall
    /\ observed = [t \in Threads |-> NeverObserved]

InitStore ==
    /\ EmptyStore
    /\ NoInvocations
    /\ NoSlackEvent
    /\ NoHttp
    /\ NoReviewCall

NoHandoff == [to |-> "none", reason |-> "none", context |-> "none"]

NoMetadata == [handoffReason |-> "none", handoffContext |-> "none"]

\* An AgentContext.
Context(threadId, messages) ==
    [threadId |-> threadId, messages |-> messages,
     previousAgent |-> "none", metadata |-> NoMetadata]

NoResponse ==
    [status |-> "none", text |-> <<>>, agent |-> "none", toolsUsed |-> <<>>,
     shouldHandoff |-> NoHandoff]

\* The locals of AgentBase.handleRequest before its first model call.
NewRun(agent) ==
    [agent |-> agent, modelCalls |-> 0, rounds |-> 0, failure |-> "none",
     firstText |-> <<>>, toolCalls |-> <<>>, idx |-> 1, results |-> <<>>,
     executed |-> <<>>, followUpSent |-> FALSE, followUpResults |-> <<>>,
     finalText |-> <<>>, toolsUsed |-> <<>>]

NewSdk == [toolsUsed |-> <<>>, responseText |-> <<>>, received |-> 0, failure |-> "none"]

\* this.tools after the constructor has run registerTools.
InitialTools == [n \in {"search"} |-> "v1"]

NoAgentRun ==
    /\ variant = "anthropic"
    /\ tools = InitialTools
    /\ invoked = <<>>
    /\ run = NewRun("none")
    /\ response = NoResponse
    /\ sdk = NewSdk
    /\ stages = <<>>
    /\ reply = NoResponse

\* The fallback classifier has not been called.
NoFallback == [kind |-> "none", content |-> <<>>]

\* No request is being dispatched.
NoDispatch ==
    /\ orch = "legacy"
    /\ ctx = Context("T1", <<>>)
    /\ pc = "idle"
    /\ target = "none"
    /\ fallbackCalls = 0
    /\ fallback = NoFallback
    /\ NoAgentRun

InitTrim == InitStore /\ NoDispatch

\* One long conversation in one thread.
TrimThreads == {"T1"}

NextTrim ==
    \/ \E t \in TrimThreads : getOrCreate(t)
    \/ \E t \in TrimThreads :
          \E agent \in (IF RoleOf(Len(appended[t]) + 1) = "assistant"
                        THEN StoreAgents ELSE {NoAgent}) : addMessage(t, agent)
    \/ \E t \in TrimThreads, a \in StoreAgents, d \in DataBags : setAgentData(t, a, d)
    \/ \E t \in TrimThreads : clear(t)
    \/ cleanup
    \/ Tick

StoreStep ==
    NextTrim /\ UNCHANGED <<lastCall, observed, routeVars, agentVars, outerVars>>

SpecTrim == InitTrim /\ [][StoreStep]_vars

----------------------------------------------------------------------------
(* The store under calls for two threads, the clock and the periodic sweep. *)

\* Messages appended to one thread in this specification.
MaxStoreAppends == 3

Called(op, t) == lastCall' = [op |-> op, thread |-> t]

\* A caller calls getOrCreate and sees the state it returns.
CallGetOrCreate(t) ==
    /\ getOrCreate(t)
    /\ Called("getOrCreate", t)
    /\ observed' = [observed EXCEPT ![t].at = conversations'[t].lastActivityAt,
                                    ![t].before = observed[t].at]

CallAddMessage(t, agent) ==
    /\ Len(appended[t]) < MaxStoreAppends
    /\ addMessage(t, agent)
    /\ Called("addMessage", t)
    /\ observed' = IF Has(t) /\ agent # NoAgent
                   THEN [observed EXCEPT ![t].agentSet = TRUE, ![t].swept = FALSE]
                   ELSE observed

CallSetAgentData(t, agent, data) ==
    /\ setAgentData(t, agent, data)
    /\ Called("setAgentData", t)
    /\ UNCHANGED observed

CallClear(t) ==
    /\ clear(t)
    /\ Called("clear", t)
    /\ observed' = [observed EXCEPT ![t].agentSet = FALSE, ![t].swept = FALSE]

\* A caller reads the messages of a thread.
CallGetMessages(t) ==
    /\ Called("getMessages", t)
    /\ UNCHANGED <<conversations, appended, now, observed>>

\* The interval timer of the constructor fires.
RunCleanup ==
    /\ cleanup
    /\ Called("cleanup", "none")
    /\ observed' = [t \in Threads |->
                        IF t \in DOMAIN conversations /\ t \notin DOMAIN conversations'
                        THEN [observed[t] EXCEPT !.swept = TRUE]
                        ELSE observed[t]]

ClockTick ==
    /\ Tick
    /\ Called("tick", "none")
    /\ UNCHANGED observed

NextStore ==
    \/ \E t \in Threads : CallGetOrCreate(t)
    \/ \E t \in Threads :
          \E agent \in (IF RoleOf(Len(appended[t]) + 1) = "assistant"
                        THEN {"scout"} ELSE {NoAgent}) : CallAddMessage(t, agent)
    \/ \E t \in Threads : CallSetAgentData(t, "scout", [k \in {"draft"} |-> 1])
    \/ \E t \in Threads : CallClear(t)
    \/ \E t \in Threads : CallGetMessages(t)
    \/ RunCleanup
    \/ ClockTick

StoreCalls == NextStore /\ UNCHANGED <<routeVars, agentVars, outerVars>>

SpecStore == InitTrim /\ [][StoreCalls]_vars

----------------------------------------------------------------------------
(* Two callers of the store on one thread.  The methods of the store are    *)
(* synchronous: a caller can be interleaved with another between two calls, *)
(* never inside one.                                                        *)

\* addMessage calls of one caller.
MaxTurn == 2

SharedThread == "T1"

\* The message the last addMessage call pushed.
Pushed(log) == log[Len(log)]

InvocationGetOrCreate(i) ==
    /\ invocations[i].pc = "start"
    /\ getOrCreate(SharedThread)
    /\ invocations' = [invocations EXCEPT ![i].pc = "append"]

InvocationAddMessage(i) ==
    /\ invocations[i].pc = "append"
    /\ \E agent \in (IF RoleOf(Len(appended[SharedThread]) + 1) = "assistant"
                     THEN {"scout"} ELSE {NoAgent}) : addMessage(SharedThread, agent)
    /\ LET calls == invocations[i].calls + 1
       IN invocations' =
              [invocations EXCEPT
                  ![i].calls = calls,
                  ![i].pc = IF calls = MaxTurn THEN "done" ELSE "append",
                  ![i].sent = IF Has(SharedThread)
                              THEN Append(@, Pushed(appended'[SharedThread]))
                              ELSE @]

\* What the callers have appended is gone with the thread.
Forgotten == [i \in Invocations |-> [invocations[i] EXCEPT !.sent = <<>>]]

\* The user asks to clear the conversation.
UserClear ==
    /\ Has(SharedThread)
    /\ clear(SharedThread)
    /\ invocations' = Forgotten

Sweep ==
    /\ cleanup
    /\ invocations' = IF SharedThread \in Expired THEN Forgotten ELSE invocations

TimePasses ==
    /\ Tick
    /\ UNCHANGED invocations

NextConcurrent ==
    \/ \E i \in Invocations : InvocationGetOrCreate(i)
    \/ \E i \in Invocations : InvocationAddMessage(i)
    \/ UserClear
    \/ Sweep
    \/ TimePasses

ConcurrentCalls ==
    NextConcurrent /\ UNCHANGED <<lastCall, observed, routeVars, agentVars, slackVars,
                                  httpVars, reviewVars>>

SpecConcurrent == InitTrim /\ [][ConcurrentCalls]_vars

----------------------------------------------------------------------------
(* The Slack event handlers and the thinking animation: src/src/index.ts.   *)
(* A chat.update call is in flight from the moment it is made until Slack   *)
(* has applied or rejected it; calls in flight settle in any order.         *)

\* Firings of the interval timer of one animation.
MaxFrames == 3

HandlerKinds == {"app_mention", "direct_message", "thread_reply"}

\* chat.postMessage of the thinking message, then startThinkingAnimation;
\* handleThreadReply returns at once when the bot is not in the thread.
PostThinking ==
    /\ handler.pc = "post"
    /\ \E inThread \in (IF handler.kind = "thread_reply" THEN BOOLEAN ELSE {TRUE}) :
          IF inThread
          THEN /\ thinking' = [text |-> "thinking", writes |-> 1]
               /\ animation' = [animation EXCEPT !.started = TRUE]
               /\ handler' = [handler EXCEPT !.pc = "request"]
          ELSE /\ handler' = [handler EXCEPT !.pc = "done", !.outcome = "ignored"]
               /\ UNCHANGED <<thinking, animation>>

\* The callback of setInterval, lines 42-50: up to the await of chat.update.
IntervalFires ==
    /\ animation.started
    /\ ~animation.cleared
    /\ animation.fired < MaxFrames
    /\ animation' = [animation EXCEPT
                        !.fired = @ + 1,
                        !.inFlight = IF animation.stopped THEN @ ELSE @ + 1]
    /\ UNCHANGED <<thinking, handler>>

\* The chat.update of a frame settles, lines 46-54.
FrameSettles ==
    /\ animation.inFlight > 0
    /\ \E applied \in BOOLEAN :
          /\ animation' = [animation EXCEPT
                              !.inFlight = @ - 1,
                              !.frameIndex = IF applied THEN @ + 1 ELSE @]
          /\ thinking' = IF applied THEN [text |-> "frame", writes |-> thinking.writes + 1]
                          ELSE thinking
    /\ UNCHANGED handler

\* await handleRequest(context) settles; the handler stops the animation
\* and calls chat.update with the response or with the error text.
AgentSettles ==
    /\ handler.pc = "request"
    /\ \E outcome \in {"response", "error"} :
          handler' = [handler EXCEPT !.pc = "update", !.outcome = outcome,
                                     !.inFlight = outcome]
    /\ animation' = [animation EXCEPT !.stopped = TRUE, !.cleared = TRUE]
    /\ UNCHANGED thinking

\* The chat.update of the handler settles.  A rejected update of the
\* response is caught and the error text is sent; a rejected update of the
\* error text rejects the handler.
UpdateSettles ==
    /\ handler.pc = "update"
    /\ \E applied \in BOOLEAN :
          IF applied
          THEN /\ thinking' = [text |-> handler.inFlight, writes |-> thinking.writes + 1]
               /\ handler' = [handler EXCEPT !.pc = "done", !.inFlight = "none"]
          ELSE /\ handler' =
                     IF handler.inFlight = "response"
                     THEN [handler EXCEPT !.outcome = "error", !.inFlight = "error"]
                     ELSE [handler EXCEPT !.pc = "failed", !.inFlight = "none"]
               /\ UNCHANGED thinking
    /\ UNCHANGED animation

NextAnimation ==
    \/ PostThinking
    \/ IntervalFires
    \/ FrameSettles
    \/ AgentSettles
    \/ UpdateSettles

SlackStep ==
    NextAnimation /\ UNCHANGED <<storeVars, routeVars, agentVars, invocations, httpVars,
                                 reviewVars>>

InitAnimation ==
    /\ EmptyStore
    /\ NoDispatch
    /\ NoInvocations
    /\ NoHttp
    /\ NoReviewCall
    /\ thinking = NoMessage
    /\ animation = NoAnimation
    /\ handler \in {[NoHandler EXCEPT !.kind = k, !.pc = "post"] : k \in HandlerKinds}

SpecAnimation == InitAnimation /\ [][SlackStep]_vars

----------------------------------------------------------------------------
(* The events endpoint: handleRequest of src/src/index.ts ("server") and    *)
(* POST of src/api/slash.ts ("function"), with verifySlackRequest of        *)
(* src/src/slack/client.ts.                                                 *)

\* Math.floor(Date.now() / 1000) when the request is verified.
CurrentTime == 1000

\* process.env.SLACK_SIGNING_SECRET
SigningSecret == "secret"

\* Values of the x-slack-request-timestamp header: 1000, 700, 699, 1300, 1301
\* and abc.  The empty string stands for a header that is absent or empty.
TimestampHeaders ==
    { <<"1", "0", "0", "0">>, <<"7", "0", "0">>, <<"6", "9", "9">>,
      <<"1", "3", "0", "0">>, <<"1", "3", "0", "1">>, <<"a", "b", "c">>, <<>> }

DigitChars == <<"0", "1", "2", "3", "4", "5", "6", "7", "8", "9">>

IsDigit(c) == \E k \in 1..10 : DigitChars[k] = c

DigitValue(c) == (CHOOSE k \in 1..10 : DigitChars[k] = c) - 1

\* parseInt: the number the leading digits spell, NaN when there are none.
RECURSIVE LeadingDigits(_, _)
LeadingDigits(chars, acc) ==
    IF chars # <<>> /\ IsDigit(Head(chars))
    THEN LeadingDigits(Tail(chars), 10 * acc + DigitValue(Head(chars)))
    ELSE acc

parseInt(chars) ==
    IF chars # <<>> /\ IsDigit(Head(chars))
    THEN [nan |-> FALSE, value |-> LeadingDigits(chars, 0)]
    ELSE [nan |-> TRUE, value |-> 0]

Abs(n) == IF n < 0 THEN 0 - n ELSE n

\* 'v0=' + hmac(secret, `v0:${timestamp}:${rawBody}`)
Sign(secret, timestamp, rawBody) == <<"v0=", secret, "v0:", timestamp, rawBody>>

\* Values of the x-slack-signature header of a request: the signature Slack
\* computes, one made without the secret, one of another timestamp, none.
SignatureHeaders(timestamp, rawBody) ==
    { Sign(SigningSecret, timestamp, rawBody),
      Sign("guess", timestamp, rawBody),
      Sign(SigningSecret, <<"1", "0", "0", "0">>, rawBody),
      <<>> }

\* The body: an event callback, a url_verification challenge, or text that
\* JSON.parse rejects.
Bodies == {"event", "challenge", "malformed"}

\* payload.event: an app mention, a direct message, a thread reply in a
\* channel, and a direct message of a bot.
EventTypes == {"app_mention", "im", "thread", "bot"}

Requests ==
    {[endpoint |-> e, body |-> b, event |-> ev, timestamp |-> t, signature |-> g] :
        e \in {"server", "function"}, b \in Bodies, ev \in EventTypes,
        t \in TimestampHeaders,
        g \in UNION {SignatureHeaders(ts, "event") : ts \in TimestampHeaders}}

\* Mutant: the age of the timestamp is not checked.
verifySlackRequestAnyAge(req) ==
    IF req.timestamp = <<>> \/ req.signature = <<>> THEN "missing"
    ELSE IF req.signature # Sign(SigningSecret, req.timestamp, req.body) THEN "invalid"
    ELSE "ok"

\* verifySlackRequest: "ok" when it returns, else the error it throws.
verifySlackRequest(req) ==
    IF req.timestamp = <<>> \/ req.signature = <<>> THEN "missing"
    ELSE IF /\ ~parseInt(req.timestamp).nan
            /\ Abs(CurrentTime - parseInt(req.timestamp).value) > 300
    THEN "old"
    ELSE IF req.signature # Sign(SigningSecret, req.timestamp, req.body) THEN "invalid"
    ELSE "ok"

\* The handlers the endpoint starts for an event.
HandlersFor(event) ==
    CASE event = "app_mention" -> {"handleAppMention"}
      [] event = "im" -> {"handleDirectMessage"}
      [] event = "thread" -> {"handleThreadReply"}
      [] OTHER -> {}

\* The body is read and parsed; a url_verification challenge is answered.
\* JSON.parse throws on a malformed body: the server answers 500 from its
\* catch block, the function rejects and the platform answers 500.
HttpParse ==
    /\ http.pc = "received"
    /\ http' = CASE request.body = "malformed" ->
                      [http EXCEPT !.pc = "done", !.status = 500]
                 [] request.body = "challenge" ->
                      [http EXCEPT !.pc = "done", !.status = 200]
                 [] OTHER -> [http EXCEPT !.pc = "verify"]
    /\ UNCHANGED request

\* await verifySlackRequest(request, rawBody) in its try block.
HttpVerify ==
    /\ http.pc = "verify"
    /\ http' = IF verifySlackRequest(request) = "ok"
               THEN [http EXCEPT !.pc = "dispatch", !.verified = TRUE]
               ELSE [http EXCEPT !.pc = "done", !.status = 401]
    /\ UNCHANGED request

\* getBotId, the answer 200 and the handlers of the event.
HttpDispatch ==
    /\ http.pc = "dispatch"
    /\ \E botId \in BOOLEAN :
          http' = IF botId
                  THEN [http EXCEPT !.pc = "done", !.status = 200,
                                    !.started = HandlersFor(request.event)]
                  ELSE [http EXCEPT !.pc = "done", !.status = 500]
    /\ UNCHANGED request

NextHttp == HttpParse \/ HttpVerify \/ HttpDispatch

HttpStep ==
    NextHttp /\ UNCHANGED <<storeVars, routeVars, agentVars, invocations, slackVars,
                            reviewVars>>

InitHttp ==
    /\ EmptyStore
    /\ NoDispatch
    /\ NoInvocations
    /\ NoSlackEvent
    /\ NoReviewCall
    /\ request \in Requests
    /\ http = [NoAnswer EXCEPT !.pc = "received"]

SpecHttp == InitHttp /\ [][HttpStep]_vars

----------------------------------------------------------------------------
(* Intent classification: src/src/agents/orchestrator/Orchestrator.ts and   *)
(* the SDK orchestrator, src/unnamed/part_004.  Strings are sequences of    *)
(* one-character strings.                                                   *)

\* ['research', 'find', 'search', 'who', 'company', 'prospect']
ScoutKeywords ==
    { <<"r", "e", "s", "e", "a", "r", "c", "h">>,
      <<"f", "i", "n", "d">>,
      <<"s", "e", "a", "r", "c", "h">>,
      <<"w", "h", "o">>,
      <<"c", "o", "m", "p", "a", "n", "y">>,
      <<"p", "r", "o", "s", "p", "e", "c", "t">> }

\* ['analyze', 'compare', 'strategy', 'insight', 'recommend', 'should i']
SageKeywords ==
    { <<"a", "n", "a", "l", "y", "z", "e">>,
      <<"c", "o", "m", "p", "a", "r", "e">>,
      <<"s", "t", "r", "a", "t", "e", "g", "y">>,
      <<"i", "n", "s", "i", "g", "h", "t">>,
      <<"r", "e", "c", "o", "m", "m", "e", "n", "d">>,
      <<"s", "h", "o", "u", "l", "d", " ", "i">> }

\* ['article', 'write', 'news', 'carescope', 'publish', 'cqc']
ChronicleKeywords ==
    { <<"a", "r", "t", "i", "c", "l", "e">>,
      <<"w", "r", "i", "t", "e">>,
      <<"n", "e", "w", "s">>,
      <<"c", "a", "r", "e", "s", "c", "o", "p", "e">>,
      <<"p", "u", "b", "l", "i", "s", "h">>,
      <<"c", "q", "c">> }

\* ['weather', 'help', 'settings', 'hello', 'hi', 'thanks']
MavenKeywords ==
    { <<"w", "e", "a", "t", "h", "e", "r">>,
      <<"h", "e", "l", "p">>,
      <<"s", "e", "t", "t", "i", "n", "g", "s">>,
      <<"h", "e", "l", "l", "o">>,
      <<"h", "i">>,
      <<"t", "h", "a", "n", "k", "s">> }

\* /\b(trend|trending|this week|today|happening|top \d+|what.?s new|latest|breaking|roundup|keywords?|buzz)\b/
TrendsPattern ==
    { <<"t", "r", "e", "n", "d">>,
      <<"t", "r", "e", "n", "d", "i", "n", "g">>,
      <<"t", "h", "i", "s", " ", "w", "e", "e", "k">>,
      <<"t", "o", "d", "a", "y">>,
      <<"h", "a", "p", "p", "e", "n", "i", "n", "g">>,
      <<"t", "o", "p", " ", "\\d+">>,
      <<"w", "h", "a", "t", ".?", "s", " ", "n", "e", "w">>,
      <<"l", "a", "t", "e", "s", "t">>,
      <<"b", "r", "e", "a", "k", "i", "n", "g">>,
      <<"r", "o", "u", "n", "d", "u", "p">>,
      <<"k", "e", "y", "w", "o", "r", "d", "s">>,
      <<"k", "e", "y", "w", "o", "r", "d">>,
      <<"b", "u", "z", "z">> }

\* /\b(research|find|search|look up|prospect|company|competitors?|who is|linkedin|people at|repo|repository|github|library|sdk|api|code|npm|package)\b/
ScoutPattern ==
    { <<"r", "e", "s", "e", "a", "r", "c", "h">>,
      <<"f", "i", "n", "d">>,
      <<"s", "e", "a", "r", "c", "h">>,
      <<"l", "o", "o", "k", " ", "u", "p">>,
      <<"p", "r", "o", "s", "p", "e", "c", "t">>,
      <<"c", "o", "m", "p", "a", "n", "y">>,
      <<"c", "o", "m", "p", "e", "t", "i", "t", "o", "r", "s">>,
      <<"c", "o", "m", "p", "e", "t", "i", "t", "o", "r">>,
      <<"w", "h", "o", " ", "i", "s">>,
      <<"l", "i", "n", "k", "e", "d", "i", "n">>,
      <<"p", "e", "o", "p", "l", "e", " ", "a", "t">>,
      <<"r", "e", "p", "o">>,
      <<"r", "e", "p", "o", "s", "i", "t", "o", "r", "y">>,
      <<"g", "i", "t", "h", "u", "b">>,
      <<"l", "i", "b", "r", "a", "r", "y">>,
      <<"s", "d", "k">>,
      <<"a", "p", "i">>,
      <<"c", "o", "d", "e">>,
      <<"n", "p", "m">>,
      <<"p", "a", "c", "k", "a", "g", "e">> }

\* /\b(analy[sz]e|compare|versus|vs|strategy|recommend|should i|pros and cons|trade-?offs?|market)\b/
SagePattern ==
    { <<"a", "n", "a", "l", "y", "s", "e">>,
      <<"a", "n", "a", "l", "y", "z", "e">>,
      <<"c", "o", "m", "p", "a", "r", "e">>,
      <<"v", "e", "r", "s", "u", "s">>,
      <<"v", "s">>,
      <<"s", "t", "r", "a", "t", "e", "g", "y">>,
      <<"r", "e", "c", "o", "m", "m", "e", "n", "d">>,
      <<"s", "h", "o", "u", "l", "d", " ", "i">>,
      <<"p", "r", "o", "s", " ", "a", "n", "d", " ", "c", "o", "n", "s">>,
      <<"t", "r", "a", "d", "e", "-", "o", "f", "f", "s">>,
      <<"t", "r", "a", "d", "e", "-", "o", "f", "f">>,
      <<"t", "r", "a", "d", "e", "o", "f", "f", "s">>,
      <<"t", "r", "a", "d", "e", "o", "f", "f">>,
      <<"m", "a", "r", "k", "e", "t">> }

\* /\b(article|write|news|carescope|cqc|care home|domiciliary|social care|publish)\b/
ChroniclePattern ==
    { <<"a", "r", "t", "i", "c", "l", "e">>,
      <<"w", "r", "i", "t", "e">>,
      <<"n", "e", "w", "s">>,
      <<"c", "a", "r", "e", "s", "c", "o", "p", "e">>,
      <<"c", "q", "c">>,
      <<"c", "a", "r", "e", " ", "h", "o", "m", "e">>,
      <<"d", "o", "m", "i", "c", "i", "l", "i", "a", "r", "y">>,
      <<"s", "o", "c", "i", "a", "l", " ", "c", "a", "r", "e">>,
      <<"p", "u", "b", "l", "i", "s", "h">> }

\* Words of the utterances: Research compare article Hello this week latest xyz
Vocab ==
    { <<"R", "e", "s", "e", "a", "r", "c", "h">>,
      <<"l", "a", "t", "e", "s", "t">>,
      <<"c", "o", "m", "p", "a", "r", "e">>,
      <<"a", "r", "t", "i", "c", "l", "e">>,
      <<"H", "e", "l", "l", "o">>,
      <<"t", "h", "i", "s">>,
      <<"w", "e", "e", "k">>,
      <<"x", "y", "z">> }

\* Answers of the fallback model: scout, " Sage\n", chronicle, maven, trends, ""
LLMAnswers ==
    { <<"s", "c", "o", "u", "t">>,
      <<" ", "S", "a", "g", "e", "\n">>,
      <<"c", "h", "r", "o", "n", "i", "c", "l", "e">>,
      <<"m", "a", "v", "e", "n">>,
      <<"t", "r", "e", "n", "d", "s">>,
      <<>> }

NameChars(role) ==
    CASE role = "scout" -> <<"s", "c", "o", "u", "t">>
      [] role = "sage" -> <<"s", "a", "g", "e">>
      [] role = "chronicle" -> <<"c", "h", "r", "o", "n", "i", "c", "l", "e">>
      [] role = "maven" -> <<"m", "a", "v", "e", "n">>
      [] role = "trends" -> <<"t", "r", "e", "n", "d", "s">>
      [] OTHER -> <<>>

Upper == <<"A", "B", "C", "D", "E", "F", "G", "H", "I", "J", "K", "L", "M", "N", "O", "P", "Q", "R", "S", "T", "U", "V", "W", "X", "Y", "Z">>

Lower == <<"a", "b", "c", "d", "e", "f", "g", "h", "i", "j", "k", "l", "m", "n", "o", "p", "q", "r", "s", "t", "u", "v", "w", "x", "y", "z">>

Digits == {"0", "1", "2", "3", "4", "5", "6", "7", "8", "9"}

NoMatch == "nomatch"

\* Bounds of the utterances and contexts.
MaxWords == 2

IsWordChar(c) ==
    \/ c \in Digits
    \/ c = "_"
    \/ \E i \in 1..Len(Lower) : Lower[i] = c \/ Upper[i] = c

IsSpace(c) == c \in {" ", "\n", "\t"}

\* String.prototype.toLowerCase
ToLower(text) ==
    [i \in 1..Len(text) |->
        IF \E k \in 1..Len(Upper) : Upper[k] = text[i]
        THEN Lower[CHOOSE k \in 1..Len(Upper) : Upper[k] = text[i]]
        ELSE text[i]]

\* String.prototype.trim
RECURSIVE TrimLeft(_)
TrimLeft(text) ==
    IF text # <<>> /\ IsSpace(Head(text)) THEN TrimLeft(Tail(text)) ELSE text

RECURSIVE TrimRight(_)
TrimRight(text) ==
    IF text # <<>> /\ IsSpace(text[Len(text)])
    THEN TrimRight(SubSeq(text, 1, Len(text) - 1))
    ELSE text

StrTrim(text) == TrimRight(TrimLeft(text))

\* String.prototype.includes
Includes(text, keyword) ==
    \E i \in 0..(Len(text) - Len(keyword)) :
        SubSeq(text, i + 1, i + Len(keyword)) = keyword

\* Orchestrator.matchesKeywords
matchesKeywords(text, keywords) == \E keyword \in keywords : Includes(text, keyword)

\* The positions just after a match of one regex alternative starting at i.
\* Elements are literal characters, "\\d+" (one or more digits) and ".?"
\* (at most one character other than a line terminator).
RECURSIVE MatchEnds(_, _, _)
MatchEnds(pat, text, i) ==
    IF pat = <<>> THEN {i}
    ELSE LET h == Head(pat)
             t == Tail(pat)
         IN IF h = ".?"
            THEN MatchEnds(t, text, i) \cup
                 (IF i <= Len(text) /\ text[i] # "\n"
                  THEN MatchEnds(t, text, i + 1) ELSE {})
            ELSE IF h = "\\d+"
            THEN UNION { MatchEnds(t, text, k) :
                         k \in { e \in (i + 1)..(Len(text) + 1) :
                                 \A m \in i..(e - 1) : text[m] \in Digits } }
            ELSE IF i <= Len(text) /\ text[i] = h
                 THEN MatchEnds(t, text, i + 1) ELSE {}

\* \b holds between text[p - 1] and text[p].
WordBoundary(text, p) ==
    LET before == p > 1 /\ IsWordChar(text[p - 1])
        after == p <= Len(text) /\ IsWordChar(text[p])
    IN before # after

\* /\b(alt1|alt2|...)\b/.test(text)
RegexTest(alts, text) ==
    \E alt \in alts : \E i \in 1..(Len(text) + 1) :
        /\ WordBoundary(text, i)
        /\ \E j \in MatchEnds(alt, text, i) : WordBoundary(text, j)

\* Mutant: the last message of the request is read, whatever its role.
LastMessageAnyRole(messages) ==
    IF messages = <<>>
    THEN [role |-> "none", content |-> [type |-> "undefined", chars |-> <<>>]]
    ELSE messages[Len(messages)]

\* context.messages.filter((m) => m.role === 'user').pop()
LastUserMessage(messages) ==
    LET idx == {i \in 1..Len(messages) : messages[i].role = "user"}
    IN IF idx = {} THEN [role |-> "none", content |-> [type |-> "undefined", chars |-> <<>>]]
       ELSE messages[CHOOSE i \in idx : \A k \in idx : k <= i]

HasUserText(messages) == LastUserMessage(messages).content.type = "string"

\* Mutant: the sage rule set is tried before the scout rule set.
KeywordRouteSageFirst(userMessage) ==
    IF matchesKeywords(userMessage, SageKeywords) THEN "sage"
    ELSE IF matchesKeywords(userMessage, ScoutKeywords) THEN "scout"
    ELSE IF matchesKeywords(userMessage, ChronicleKeywords) THEN "chronicle"
    ELSE IF matchesKeywords(userMessage, MavenKeywords) THEN "maven"
    ELSE NoMatch

\* The keyword fast path of Orchestrator.classifyIntent, lines 119-134.
KeywordRoute(userMessage) ==
    IF matchesKeywords(userMessage, ScoutKeywords) THEN "scout"
    ELSE IF matchesKeywords(userMessage, SageKeywords) THEN "sage"
    ELSE IF matchesKeywords(userMessage, ChronicleKeywords) THEN "chronicle"
    ELSE IF matchesKeywords(userMessage, MavenKeywords) THEN "maven"
    ELSE NoMatch

\* Mutant: the SDK classifier's default is scout.
classifyIntentDefaultScout(message) ==
    LET lower == ToLower(message)
    IN IF RegexTest(TrendsPattern, lower) THEN "trends"
       ELSE IF RegexTest(ScoutPattern, lower) THEN "scout"
       ELSE IF RegexTest(SagePattern, lower) THEN "sage"
       ELSE IF RegexTest(ChroniclePattern, lower) THEN "chronicle"
       ELSE "scout"

\* classifyIntent of the SDK orchestrator.
classifyIntent(message) ==
    LET lower == ToLower(message)
    IN IF RegexTest(TrendsPattern, lower) THEN "trends"
       ELSE IF RegexTest(ScoutPattern, lower) THEN "scout"
       ELSE IF RegexTest(SagePattern, lower) THEN "sage"
       ELSE IF RegexTest(ChroniclePattern, lower) THEN "chronicle"
       ELSE "maven"

KnownRoles == {"scout", "sage", "chronicle", "maven"}

\* What the fallback classifier call does: it throws, answers with a non-OK
\* status, answers without content, or answers with a text.
LLMOutcomes ==
    {[kind |-> k, content |-> <<>>] : k \in {"throw", "nonok", "nocontent"}}
    \cup {[kind |-> "ok", content |-> a] : a \in LLMAnswers}

\* Mutant: the answer of the fallback classifier is returned unvalidated.
classifyWithLLMUnchecked(outcome) ==
    IF outcome.kind # "ok" THEN "maven"
    ELSE LET classification == ToLower(StrTrim(outcome.content))
         IN IF classification = <<>> THEN "maven"
            ELSE IF \E r \in KnownRoles \cup {"trends"} : NameChars(r) = classification
            THEN CHOOSE r \in KnownRoles \cup {"trends"} : NameChars(r) = classification
            ELSE "unknown"

\* Orchestrator.classifyWithLLM over the module-level classifyWithLLM.
classifyWithLLM(outcome) ==
    IF outcome.kind # "ok" THEN "maven"
    ELSE LET classification == ToLower(StrTrim(outcome.content))
         IN IF \E r \in KnownRoles : NameChars(r) = classification
            THEN CHOOSE r \in KnownRoles : NameChars(r) = classification
            ELSE "maven"

\* Utterances: one to MaxWords words joined by single spaces.
RECURSIVE Join(_)
Join(words) ==
    IF Len(words) = 1 THEN words[1]
    ELSE words[1] \o <<" ">> \o Join(Tail(words))

Utterances ==
    {Join(ws) : ws \in UNION {[1..n -> Vocab] : n \in 1..MaxWords}}

StringContent(chars) == [type |-> "string", chars |-> chars]

\* A content that is an array of blocks, not a string.
BlocksContent == [type |-> "blocks", chars |-> <<>>]

Contents == {StringContent(u) : u \in Utterances} \cup {BlocksContent}

Roles == {"user", "assistant"}

AllMessages == [role : Roles, content : Contents]

EarlierMessages ==
    [role : Roles,
     content : {StringContent(<<"R", "e", "s", "e", "a", "r", "c", "h">>),
                StringContent(<<"x", "y", "z">>), BlocksContent}]

\* context.messages: nothing, one message, or an earlier message and one more.
Contexts ==
    {<<>>} \cup {<<m>> : m \in AllMessages}
           \cup {<<e, m>> : e \in EarlierMessages, m \in AllMessages}

\* this.agents of the Orchestrator.
RegisteredAgents == {"maven", "scout", "sage", "chronicle"}

\* Orchestrator.handle, lines 72-80: the agent found for targetAgent gets the
\* request; when none is found maven gets it and its response is returned as is.
StartAgent(agent, found) ==
    /\ run' = NewRun(IF found THEN agent ELSE "maven")
    /\ invoked' = <<[agent |-> IF found THEN agent ELSE "maven", final |-> ~found]>>

\* Mutant: the fallback classifier is called before the keyword rules are read.
RouteLegacyFallbackFirst ==
    /\ pc = "route"
    /\ orch = "legacy"
    /\ IF ~HasUserText(ctx.messages)
       THEN target' = "maven" /\ UNCHANGED <<fallbackCalls, fallback>>
       ELSE LET userMessage == ToLower(LastUserMessage(ctx.messages).content.chars)
                byKeyword == KeywordRoute(userMessage)
            IN \E outcome \in LLMOutcomes :
                  /\ target' = IF byKeyword # NoMatch THEN byKeyword
                                ELSE classifyWithLLM(outcome)
                  /\ fallbackCalls' = fallbackCalls + 1
                  /\ fallback' = outcome
    /\ pc' = "exec"
    /\ StartAgent(target', target' \in RegisteredAgents)
    /\ UNCHANGED <<orch, ctx, storeVars, outerVars, variant, tools, response, sdk, stages, reply>>

\* Orchestrator.handle, line 69: classifyIntent with its fallback.
RouteLegacy ==
    /\ pc = "route"
    /\ orch = "legacy"
    /\ IF ~HasUserText(ctx.messages)
       THEN target' = "maven" /\ UNCHANGED <<fallbackCalls, fallback>>
       ELSE LET userMessage == ToLower(LastUserMessage(ctx.messages).content.chars)
                byKeyword == KeywordRoute(userMessage)
            IN IF byKeyword # NoMatch
               THEN target' = byKeyword /\ UNCHANGED <<fallbackCalls, fallback>>
               ELSE \E outcome \in LLMOutcomes :
                       /\ target' = classifyWithLLM(outcome)
                       /\ fallbackCalls' = fallbackCalls + 1
                       /\ fallback' = outcome
    /\ pc' = "exec"
    /\ StartAgent(target', target' \in RegisteredAgents)
    /\ UNCHANGED <<orch, ctx, storeVars, outerVars, variant, tools, response, sdk, stages, reply>>

\* "I didn't catch that. Could you please repeat?"
DidNotCatch == <<"didnotcatch">>

\* Mutant: the agent is announced before the routing notification.
RouteSdkThinkingFirst ==
    /\ pc = "route"
    /\ orch = "sdk"
    /\ IF ~HasUserText(ctx.messages)
       THEN /\ target' = "maven"
            /\ pc' = "done"
            /\ reply' = [status |-> "returned", text |-> DidNotCatch, agent |-> "maven",
                         toolsUsed |-> <<>>, shouldHandoff |-> NoHandoff]
            /\ UNCHANGED stages
       ELSE /\ target' = classifyIntent(LastUserMessage(ctx.messages).content.chars)
            /\ pc' = "query"
            /\ stages' = stages \o <<"thinking", "routing">>
            /\ UNCHANGED reply
    /\ UNCHANGED <<orch, ctx, fallbackCalls, fallback, storeVars, outerVars, variant, tools, invoked, run,
                   response, sdk>>

\* handleRequest of the SDK orchestrator, lines 289-309.
RouteSdk ==
    /\ pc = "route"
    /\ orch = "sdk"
    /\ IF ~HasUserText(ctx.messages)
       THEN /\ target' = "maven"
            /\ pc' = "done"
            /\ reply' = [status |-> "returned", text |-> DidNotCatch, agent |-> "maven",
                         toolsUsed |-> <<>>, shouldHandoff |-> NoHandoff]
            /\ UNCHANGED stages
       ELSE /\ target' = classifyIntent(LastUserMessage(ctx.messages).content.chars)
            /\ pc' = "query"
            /\ stages' = stages \o <<"routing", "thinking">>
            /\ UNCHANGED reply
    /\ UNCHANGED <<orch, ctx, fallbackCalls, fallback, storeVars, outerVars, variant, tools, invoked, run,
                   response, sdk>>

InitRequest ==
    /\ InitStore
    /\ orch \in {"legacy", "sdk"}
    /\ variant \in {"anthropic", "openrouter"}
    /\ orch = "sdk" => variant = "anthropic"
    /\ tools = InitialTools
    /\ pc = "route"
    /\ target = "none"
    /\ fallbackCalls = 0
    /\ fallback = NoFallback
    /\ invoked = <<>>
    /\ run = NewRun("none")
    /\ response = NoResponse
    /\ sdk = NewSdk
    /\ stages = <<>>
    /\ reply = NoResponse

InitClassify ==
    /\ InitRequest
    /\ ctx \in {Context("T1", m) : m \in Contexts}

NextClassify == RouteLegacy \/ RouteSdk

SpecClassify == InitClassify /\ [][NextClassify]_vars

\* The caller sends the same request again (the loop of src/test-routing.ts,
\* a user repeating a message): a new dispatch invocation starts, the result
\* of the previous one still being known to the caller.
CallAgain ==
    /\ pc \in {"exec", "query", "done"}
    /\ pc' = "route"
    /\ fallbackCalls' = 0
    /\ fallback' = NoFallback
    /\ invoked' = <<>>
    /\ run' = NewRun("none")
    /\ response' = NoResponse
    /\ sdk' = NewSdk
    /\ stages' = <<>>
    /\ reply' = NoResponse
    /\ UNCHANGED <<storeVars, outerVars, orch, ctx, target, variant, tools>>

NextRepeat == RouteLegacy \/ RouteSdk \/ CallAgain

\* A request of one user message, as the routing tests send it.
InitRepeat ==
    /\ InitRequest
    /\ ctx \in {Context("T1", <<[role |-> "user", content |-> c]>>) : c \in Contents}

SpecRepeat == InitRepeat /\ [][NextRepeat]_vars

\* Requests with a history: up to MaxHistory messages of either role.
MaxHistory == 3

HistoryMessages ==
    [role : Roles,
     content : {StringContent(<<"R", "e", "s", "e", "a", "r", "c", "h">>),
                StringContent(<<"c", "o", "m", "p", "a", "r", "e">>),
                StringContent(<<"x", "y", "z">>), BlocksContent}]

Histories == UNION {[1..n -> HistoryMessages] : n \in 0..MaxHistory}

\* The store after getOrCreate, a user message and scout's reply in thread t.
StoredTurn(t) ==
    LET turn == <<[role |-> "user", content |-> 1],
                  [role |-> "assistant", content |-> 2]>>
    IN /\ conversations =
            MapSet([x \in {} |-> 0], t,
                   [messages |-> turn, currentAgent |-> "scout",
                    agentData |-> [a \in StoreAgents |-> EmptyBag],
                    lastActivityAt |-> 0])
       /\ appended = [x \in Threads |-> IF x = t THEN turn ELSE <<>>]
       /\ now = 0
       /\ lastCall = [op |-> "addMessage", thread |-> t]
       /\ observed = [x \in Threads |->
                         IF x = t THEN [at |-> 0, before |-> -1, agentSet |-> TRUE,
                                        swept |-> FALSE]
                         ELSE NeverObserved]

\* A request with any history and previous agent, on a fresh store or on a
\* store that holds the thread.
InitHistory ==
    /\ \/ InitStore
       \/ StoredTurn("T1") /\ NoInvocations /\ NoSlackEvent /\ NoHttp /\ NoReviewCall
    /\ orch \in {"legacy", "sdk"}
    /\ variant = "anthropic"
    /\ \E m \in Histories, previous \in {"none", "scout", "sage"} :
          ctx = [Context("T1", m) EXCEPT !.previousAgent = previous]
    /\ pc = "route"
    /\ target = "none"
    /\ fallbackCalls = 0
    /\ fallback = NoFallback
    /\ NoAgentRun

SpecHistory == InitHistory /\ [][NextClassify]_vars

----------------------------------------------------------------------------
(* The agent loop: src/src/agents/base/AgentBase.ts (Anthropic client) and   *)
(* src/unnamed/part_009 (OpenRouter), under Orchestrator.handle.  Reply      *)
(* texts are sequences of tokens.                                            *)

\* Bounds of the model's responses.
MaxCalls == 2
MaxStream == 2
MaxBlocks == 2

\* this.tools of an agent.
RegisteredTools == {"search"}

ToolNames == {"search", "ghost"}
CallIds == {"c1", "c2"}
\* The arguments of a call: an object that fits the tool's parameters, an
\* object that does not (a required field is missing), or, from OpenRouter,
\* a string that JSON.parse rejects.
ArgumentKinds == {"json", "invalid", "badjson"}
ProposedCalls == [id : CallIds, name : ToolNames, arguments : ArgumentKinds]
CallSeqs == UNION {[1..n -> ProposedCalls] : n \in 0..MaxCalls}

\* The calls a response of client v proposes.  A tool_use block of the
\* Anthropic client carries its input as an object; the arguments of an
\* OpenRouter call are a string, read only when the tool is registered.
CallSeqsOf(v) ==
    {c \in CallSeqs :
        \A i \in 1..Len(c) :
            /\ v = "anthropic" => c[i].arguments # "badjson"
            /\ c[i].name \notin RegisteredTools => c[i].arguments = "json"}
FollowUpCallSeqs == {<<>>, <<[id |-> "f1", name |-> "search", arguments |-> "json"]>>}

FirstTexts == {<<>>, <<" ", "**", "a">>}
FollowUpTexts == {<<>>, <<"[l](u)", "b", " ">>}

\* What a model call does: it throws (transport error, non-OK status, a body
\* that does not parse), answers with a body that lacks the expected content,
\* or answers with a text and proposed tool calls.
ModelOutcomes(texts, callSeqs) ==
    {[kind |-> k, text |-> <<>>, calls |-> <<>>] : k \in {"throw", "malformed"}}
    \cup {[kind |-> "ok", text |-> t, calls |-> c] : t \in texts, c \in callSeqs}

\* The shouldHandoff field of an AgentResponse.
HandoffSignals ==
    {NoHandoff} \cup
    {[to |-> a, reason |-> "reason", context |-> "payload"] :
        a \in {"sage", "orchestrator"}}

FormatToken(t) ==
    CASE t = "**" -> "*"
      [] t = "[l](u)" -> "<u|l>"
      [] OTHER -> t

\* AgentBase.formatForSlack
formatForSlack(text) == StrTrim([i \in 1..Len(text) |-> FormatToken(text[i])])

\* getErrorMessage of the agent classes: a fixed text per agent.
getErrorMessage(agent) == <<"error", agent>>

\* Whether a model call outcome ends in the catch block of handleRequest.
Throws(outcome) ==
    \/ outcome.kind = "throw"
    \/ outcome.kind = "malformed" /\ variant = "anthropic"

ErrorResponse(agent, toolsUsed, h) ==
    [status |-> "returned", text |-> getErrorMessage(agent), agent |-> agent,
     toolsUsed |-> toolsUsed, shouldHandoff |-> h]

TextResponse(agent, finalText, toolsUsed, h) ==
    [status |-> "returned", text |-> formatForSlack(finalText), agent |-> agent,
     toolsUsed |-> toolsUsed, shouldHandoff |-> h]

\* AgentBase.handleRequest up to the response of the first model call.
AgentFirstCall ==
    /\ pc = "exec"
    /\ \E o \in ModelOutcomes(FirstTexts, CallSeqsOf(variant)), h \in HandoffSignals :
          IF Throws(o)
          THEN /\ run' = [run EXCEPT !.modelCalls = @ + 1, !.failure = o.kind]
               /\ response' = ErrorResponse(run.agent, run.toolsUsed, h)
               /\ pc' = "ret"
          ELSE IF o.calls = <<>>
          THEN /\ run' = [run EXCEPT !.modelCalls = @ + 1, !.firstText = o.text,
                                      !.finalText = o.text,
                                      !.failure = IF o.kind = "ok" THEN "none" ELSE o.kind]
               /\ response' = TextResponse(run.agent, o.text, run.toolsUsed, h)
               /\ pc' = "ret"
          ELSE /\ h = NoHandoff
               /\ run' = [run EXCEPT !.modelCalls = @ + 1, !.firstText = o.text,
                                      !.finalText = o.text, !.toolCalls = o.calls,
                                      !.rounds = @ + 1]
               /\ response' = response
               /\ pc' = "tools"
    /\ UNCHANGED <<storeVars, outerVars, orch, ctx, target, fallbackCalls, fallback, variant, tools,
                   invoked, sdk, stages, reply>>

CallNames(calls) == [i \in 1..Len(calls) |-> calls[i].name]

\* The ToolResult of one call.
ToolResult(call, content) ==
    [tool_use_id |-> call.id, content |-> content, error |-> content # "result"]

\* Mutant: a call that names no registered tool gets no result.
executeToolsSkipsUnknown ==
    /\ pc = "tools"
    /\ LET call == run.toolCalls[run.idx]
           found == call.name \in DOMAIN tools
           last == run.idx = Len(run.toolCalls)
       IN \E outcome \in {"result", "thrown"} :
             /\ ~found => outcome = "result"
             /\ run' = [run EXCEPT
                           !.results = IF found THEN Append(@, ToolResult(call, outcome))
                                       ELSE @,
                           !.executed = IF found THEN Append(@, call) ELSE @,
                           !.idx = @ + 1,
                           !.toolsUsed = IF last THEN @ \o CallNames(run.toolCalls) ELSE @]
             /\ pc' = IF last THEN "followup" ELSE "tools"
    /\ UNCHANGED <<storeVars, outerVars, orch, ctx, target, fallbackCalls, fallback, variant, tools,
                   invoked, response, sdk, stages, reply>>

\* Mutant: toolsUsed receives the names of the executed calls only.
executeToolsNamesExecuted ==
    /\ pc = "tools"
    /\ LET call == run.toolCalls[run.idx]
           found == call.name \in DOMAIN tools
           parsed == call.arguments # "badjson"
           last == run.idx = Len(run.toolCalls)
       IN \E outcome \in {"result", "thrown"} :
             LET content == IF ~found THEN "notfound"
                            ELSE IF ~parsed THEN "parseerror"
                            ELSE outcome
                 executed == IF found /\ parsed THEN Append(run.executed, call)
                             ELSE run.executed
             IN /\ ~(found /\ parsed) => outcome = "result"
                /\ run' = [run EXCEPT
                              !.results = Append(@, ToolResult(call, content)),
                              !.executed = executed,
                              !.idx = @ + 1,
                              !.toolsUsed =
                                  IF last THEN @ \o CallNames(executed) ELSE @]
                /\ pc' = IF last THEN "followup" ELSE "tools"
    /\ UNCHANGED <<storeVars, outerVars, orch, ctx, target, fallbackCalls, fallback, variant, tools,
                   invoked, response, sdk, stages, reply>>

\* AgentBase.executeTools, one call of the loop, and after the last call
\* toolsUsed.push(...) of handleRequest.
executeTools ==
    /\ pc = "tools"
    /\ LET call == run.toolCalls[run.idx]
           found == call.name \in DOMAIN tools
           parsed == call.arguments # "badjson"
           last == run.idx = Len(run.toolCalls)
       IN \E outcome \in {"result", "thrown"} :
             LET content == IF ~found THEN "notfound"
                            ELSE IF ~parsed THEN "parseerror"
                            ELSE outcome
             IN /\ ~(found /\ parsed) => outcome = "result"
                /\ run' = [run EXCEPT
                              !.results = Append(@, ToolResult(call, content)),
                              !.executed = IF found /\ parsed THEN Append(@, call) ELSE @,
                              !.idx = @ + 1,
                              !.toolsUsed =
                                  IF last THEN @ \o CallNames(run.toolCalls) ELSE @]
                /\ pc' = IF last THEN "followup" ELSE "tools"
    /\ UNCHANGED <<storeVars, outerVars, orch, ctx, target, fallbackCalls, fallback, variant, tools,
                   invoked, response, sdk, stages, reply>>

\* The final text after the follow-up response.
FollowUpText(finalText, text) ==
    IF variant = "anthropic" THEN finalText \o text
    ELSE IF text # <<>> THEN text ELSE finalText

\* Mutant: tool calls proposed by the follow-up response start another round.
AgentFollowUpChains ==
    /\ pc = "followup"
    /\ \E o \in ModelOutcomes(FollowUpTexts, FollowUpCallSeqs), h \in HandoffSignals :
          IF Throws(o)
          THEN /\ run' = [run EXCEPT !.modelCalls = @ + 1, !.failure = o.kind,
                                      !.followUpSent = TRUE,
                                      !.followUpResults = run.results]
               /\ response' = ErrorResponse(run.agent, run.toolsUsed, h)
               /\ pc' = "ret"
          ELSE IF o.calls # <<>>
          THEN /\ h = NoHandoff
               /\ run' = [run EXCEPT !.modelCalls = @ + 1, !.followUpSent = TRUE,
                                      !.followUpResults = run.results,
                                      !.toolCalls = @ \o o.calls, !.rounds = @ + 1]
               /\ response' = response
               /\ pc' = "tools"
          ELSE /\ run' = [run EXCEPT !.modelCalls = @ + 1, !.followUpSent = TRUE,
                                      !.followUpResults = run.results,
                                      !.finalText = FollowUpText(@, o.text)]
               /\ response' = TextResponse(run.agent, FollowUpText(run.finalText, o.text),
                                           run.toolsUsed, h)
               /\ pc' = "ret"
    /\ UNCHANGED <<storeVars, outerVars, orch, ctx, target, fallbackCalls, fallback, variant, tools,
                   invoked, sdk, stages, reply>>

\* AgentBase.handleRequest from the follow-up request to its return.
AgentFollowUp ==
    /\ pc = "followup"
    /\ \E o \in ModelOutcomes(FollowUpTexts, FollowUpCallSeqs), h \in HandoffSignals :
          IF Throws(o)
          THEN /\ run' = [run EXCEPT !.modelCalls = @ + 1, !.failure = o.kind,
                                      !.followUpSent = TRUE,
                                      !.followUpResults = run.results]
               /\ response' = ErrorResponse(run.agent, run.toolsUsed, h)
               /\ pc' = "ret"
          ELSE /\ run' = [run EXCEPT !.modelCalls = @ + 1, !.followUpSent = TRUE,
                                      !.followUpResults = run.results,
                                      !.finalText = FollowUpText(@, o.text),
                                      !.failure = IF o.kind = "ok" THEN "none" ELSE o.kind]
               /\ response' = TextResponse(run.agent, FollowUpText(run.finalText, o.text),
                                           run.toolsUsed, h)
               /\ pc' = "ret"
    /\ UNCHANGED <<storeVars, outerVars, orch, ctx, target, fallbackCalls, fallback, variant, tools,
                   invoked, sdk, stages, reply>>

\* Mutant: the response of the handoff agent is checked for a handoff too.
RedirectsAgain(resp, final) ==
    /\ resp.shouldHandoff.to # "none"
    /\ resp.shouldHandoff.to \in RegisteredAgents

\* Whether Orchestrator.handle redirects the request after a response.
Redirects(resp, final) ==
    /\ ~final
    /\ resp.shouldHandoff.to # "none"
    /\ resp.shouldHandoff.to \in RegisteredAgents

\* Orchestrator.handle, lines 82-101, after an agent has returned.
handle ==
    /\ pc = "ret"
    /\ IF Redirects(response, invoked[Len(invoked)].final)
       THEN /\ ctx' = [ctx EXCEPT !.previousAgent = target,
                                  !.metadata =
                                      [handoffReason |-> response.shouldHandoff.reason,
                                       handoffContext |-> response.shouldHandoff.context]]
            /\ invoked' = Append(invoked, [agent |-> response.shouldHandoff.to,
                                           final |-> TRUE])
            /\ run' = NewRun(response.shouldHandoff.to)
            /\ response' = NoResponse
            /\ pc' = "exec"
            /\ UNCHANGED reply
       ELSE /\ reply' = response
            /\ pc' = "done"
            /\ UNCHANGED <<ctx, invoked, run, response>>
    /\ UNCHANGED <<storeVars, outerVars, orch, target, fallbackCalls, fallback, variant, tools, sdk, stages>>

----------------------------------------------------------------------------
(* The registry of an agent: AgentBase.tools and registerTool.              *)

\* Tool definitions a subclass may register: a name, and which definition.
RegistryNames == {"search", "scrape", "fetch", "crawl"}
Definitions == {"v1", "v2", "v3"}
ToolDefinitions == [name : RegistryNames, definition : Definitions]

\* AgentBase.registerTool
registerTool(tool) ==
    /\ tools' = MapSet(tools, tool.name, tool.definition)
    /\ UNCHANGED <<storeVars, outerVars, routeVars, variant, invoked, run, response, sdk, stages,
                   reply>>

\* The constructor has made the empty map; registerTools has not run yet.
InitRegistry ==
    /\ InitStore
    /\ orch = "legacy"
    /\ ctx = Context("T1", <<>>)
    /\ pc = "idle"
    /\ target = "none"
    /\ fallbackCalls = 0
    /\ fallback = NoFallback
    /\ variant \in {"anthropic", "openrouter"}
    /\ tools = [n \in {} |-> "v1"]
    /\ invoked = <<>>
    /\ run = NewRun("none")
    /\ response = NoResponse
    /\ sdk = NewSdk
    /\ stages = <<>>
    /\ reply = NoResponse

NextRegistry == \E tool \in ToolDefinitions : registerTool(tool)

SpecRegistry == InitRegistry /\ [][NextRegistry]_vars

----------------------------------------------------------------------------
(* handleRequest of the SDK orchestrator: src/unnamed/part_004, 326-382.    *)

SdkBlocks ==
    {[type |-> "tool_use", name |-> "search", text |-> <<>>],
     [type |-> "text", name |-> "", text |-> <<"**", "s">>],
     [type |-> "text", name |-> "", text |-> <<>>]}

SdkMessages ==
    {[type |-> "assistant", content |-> bs] :
        bs \in UNION {[1..n -> SdkBlocks] : n \in 0..MaxBlocks}}
    \cup {[type |-> t, content |-> <<>>] : t \in {"result", "system"}}

\* The loop over the blocks of one assistant message, lines 357-364.
RECURSIVE SdkFold(_, _)
SdkFold(acc, blocks) ==
    IF blocks = <<>> THEN acc
    ELSE LET b == Head(blocks)
         IN SdkFold(
              IF b.type = "tool_use"
              THEN [acc EXCEPT !.stages = Append(@, "tool_call"),
                               !.toolsUsed = Append(@, b.name)]
              ELSE IF b.type = "text" /\ b.text # <<>>
              THEN [acc EXCEPT !.responseText = b.text]
              ELSE acc,
              Tail(blocks))

\* One message of the query stream, lines 354-368.
SdkQueryMessage ==
    /\ pc = "query"
    /\ sdk.received < MaxStream
    /\ \E m \in SdkMessages :
          LET acc == SdkFold([stages |-> stages, toolsUsed |-> sdk.toolsUsed,
                              responseText |-> sdk.responseText],
                             IF m.type = "assistant" THEN m.content ELSE <<>>)
          IN /\ sdk' = [sdk EXCEPT !.received = @ + 1, !.toolsUsed = acc.toolsUsed,
                                    !.responseText = acc.responseText]
             /\ stages' = IF m.type = "result" THEN Append(stages, "responding")
                           ELSE acc.stages
    /\ UNCHANGED <<storeVars, outerVars, routeVars, variant, tools, invoked, run, response, reply>>

\* `${agent.emoji} *${agent.name}*\n\n`
SdkHeader(agent) == <<"emoji", agent, "*", agent, "*", "\n\n">>

\* `${agent.emoji} I encountered an issue while processing your request. ...`
SdkErrorText(agent) == <<"emoji", agent, "issue">>

\* The stream ends or throws, and handleRequest returns, lines 369-381.
SdkQueryEnd ==
    /\ pc = "query"
    /\ \E outcome \in {"end", "throw"} :
          LET responseText == IF outcome = "throw" THEN SdkErrorText(target)
                              ELSE sdk.responseText
          IN /\ sdk' = [sdk EXCEPT !.responseText = responseText,
                                    !.failure = IF outcome = "throw" THEN "throw" ELSE "none"]
             /\ reply' = [status |-> "returned",
                          text |-> SdkHeader(target) \o formatForSlack(responseText),
                          agent |-> target, toolsUsed |-> sdk.toolsUsed,
                          shouldHandoff |-> NoHandoff]
    /\ pc' = "done"
    /\ UNCHANGED <<storeVars, outerVars, orch, ctx, target, fallbackCalls, fallback, variant, tools,
                   invoked, run, response, stages>>

DispatchContexts ==
    {Context("T1", m) :
        m \in {<<>>,
               <<[role |-> "user",
                  content |-> StringContent(<<"R", "e", "s", "e", "a", "r", "c", "h">>)]>>}}

InitDispatch ==
    /\ InitRequest
    /\ ctx \in DispatchContexts

NextDispatch ==
    \/ RouteLegacy
    \/ RouteSdk
    \/ AgentFirstCall
    \/ executeTools
    \/ AgentFollowUp
    \/ handle
    \/ SdkQueryMessage
    \/ SdkQueryEnd

SpecDispatch == InitDispatch /\ [][NextDispatch]_vars

\* Every awaited model, tool and stream call settles.
SpecDispatchFair == SpecDispatch /\ WF_vars(NextDispatch)

----------------------------------------------------------------------------
(* The article review: reviewArticleQuality of                              *)
(* src/src/agents/chronicle/article-review.ts, called by the tools of the   *)
(* Chronicle agent.  "pound" stands for the pound sign, one character.      *)

QUALITY_THRESHOLD == 70

Dimensions ==
    <<"dataQuality", "sourceAttribution", "formatting", "depth", "actionability",
      "britishEnglish">>

KeyDataHeading ==
    <<"K", "e", "y", " ", "D", "a", "t", "a", " ", "S", "u", "m", "m", "a",
      "r", "y">>

SourcesHeading ==
    <<"#", "#", " ", "S", "o", "u", "r", "c", "e", "s">>

Dashes ==
    <<"-", "-", "-">>

Closer ==
    <<"\n", "-", "-", "-">>

\* placeholderPatterns, lines 50-66.
placeholderPatterns ==
    <<
      [lit |-> <<"t", "o", " ", "b", "e", " ", "c", "o", "n", "f", "i", "r", "m", "e", "d">>, i |-> TRUE],
      [lit |-> <<"T", "B", "C">>, i |-> FALSE],
      [lit |-> <<"T", "B", "D">>, i |-> FALSE],
      [lit |-> <<"[", "i", "n", "s", "e", "r", "t">>, i |-> TRUE],
      [lit |-> <<"[", "a", "d", "d">>, i |-> TRUE],
      [lit |-> <<"N", "/", "A">>, i |-> FALSE],
      [lit |-> <<"d", "a", "t", "a", " ", "u", "n", "a", "v", "a", "i", "l", "a", "b", "l", "e">>, i |-> TRUE],
      [lit |-> <<"f", "i", "g", "u", "r", "e", "s", " ", "p", "e", "n", "d", "i", "n", "g">>, i |-> TRUE],
      [lit |-> <<"a", "w", "a", "i", "t", "i", "n", "g", " ", "d", "a", "t", "a">>, i |-> TRUE],
      [lit |-> <<"X", "X", "%">>, i |-> FALSE],
      [lit |-> <<"X", ",", "X", "X", "X">>, i |-> FALSE],
      [lit |-> <<"$", "X">>, i |-> FALSE],
      [lit |-> <<"pound", "X">>, i |-> FALSE],
      [lit |-> <<"[", "t", "o", "d", "o", "]">>, i |-> TRUE],
      [lit |-> <<"[", "p", "l", "a", "c", "e", "h", "o", "l", "d", "e", "r", "]">>, i |-> TRUE]
    >>

\* The alternatives of the inline citation pattern, line 134.
inlineCitationPattern ==
    <<
      [lit |-> <<"a", "c", "c", "o", "r", "d", "i", "n", "g", " ", "t", "o">>, i |-> TRUE],
      [lit |-> <<"r", "e", "p", "o", "r", "t", "e", "d", " ", "b", "y">>, i |-> TRUE],
      [lit |-> <<"d", "a", "t", "a", " ", "f", "r", "o", "m">>, i |-> TRUE],
      [lit |-> <<"s", "t", "a", "t", "e", "s", " ", "t", "h", "a", "t">>, i |-> TRUE],
      [lit |-> <<"f", "o", "u", "n", "d", " ", "t", "h", "a", "t">>, i |-> TRUE],
      [lit |-> <<"p", "u", "b", "l", "i", "s", "h", "e", "d", " ", "b", "y">>, i |-> TRUE],
      [lit |-> <<"r", "e", "s", "e", "a", "r", "c", "h", " ", "b", "y">>, i |-> TRUE],
      [lit |-> <<"a", "n", "a", "l", "y", "s", "i", "s", " ", "b", "y">>, i |-> TRUE]
    >>

\* fillerPhrases, lines 228-240.
fillerPhrases ==
    <<
      [lit |-> <<"i", "t", " ", "i", "s", " ", "i", "m", "p", "o", "r", "t", "a", "n", "t", " ", "t", "o">>, i |-> TRUE],
      [lit |-> <<"i", "t", " ", "i", "s", " ", "e", "s", "s", "e", "n", "t", "i", "a", "l", " ", "t", "o">>, i |-> TRUE],
      [lit |-> <<"i", "n", " ", "t", "o", "d", "a", "y", "'", "s", " ", "w", "o", "r", "l", "d">>, i |-> TRUE],
      [lit |-> <<"i", "n", " ", "t", "h", "i", "s", " ", "d", "a", "y", " ", "a", "n", "d", " ", "a", "g", "e">>, i |-> TRUE],
      [lit |-> <<"g", "o", "i", "n", "g", " ", "f", "o", "r", "w", "a", "r", "d">>, i |-> TRUE],
      [lit |-> <<"a", "t", " ", "t", "h", "e", " ", "e", "n", "d", " ", "o", "f", " ", "t", "h", "e", " ", "d", "a", "y">>, i |-> TRUE],
      [lit |-> <<"w", "h", "e", "n", " ", "i", "t", " ", "c", "o", "m", "e", "s", " ", "t", "o">>, i |-> TRUE],
      [lit |-> <<"t", "h", "e", "r", "e", " ", "i", "s", " ", "n", "o", " ", "d", "o", "u", "b", "t", " ", "t", "h", "a", "t">>, i |-> TRUE],
      [lit |-> <<"i", "t", " ", "g", "o", "e", "s", " ", "w", "i", "t", "h", "o", "u", "t", " ", "s", "a", "y", "i", "n", "g">>, i |-> TRUE],
      [lit |-> <<"n", "e", "e", "d", "l", "e", "s", "s", " ", "t", "o", " ", "s", "a", "y">>, i |-> TRUE],
      [lit |-> <<"a", "s", " ", "w", "e", " ", "a", "l", "l", " ", "k", "n", "o", "w">>, i |-> TRUE]
    >>

\* analysisIndicators, lines 259-272.
analysisIndicators ==
    <<
      [lit |-> <<"t", "h", "i", "s", " ", "s", "u", "g", "g", "e", "s", "t", "s">>, i |-> TRUE],
      [lit |-> <<"t", "h", "i", "s", " ", "i", "n", "d", "i", "c", "a", "t", "e", "s">>, i |-> TRUE],
      [lit |-> <<"t", "h", "e", " ", "i", "m", "p", "l", "i", "c", "a", "t", "i", "o", "n">>, i |-> TRUE],
      [lit |-> <<"t", "h", "i", "s", " ", "m", "e", "a", "n", "s", " ", "t", "h", "a", "t">>, i |-> TRUE],
      [lit |-> <<"c", "o", "m", "p", "a", "r", "e", "d", " ", "t", "o">>, i |-> TRUE],
      [lit |-> <<"i", "n", " ", "c", "o", "n", "t", "r", "a", "s", "t">>, i |-> TRUE],
      [lit |-> <<"h", "o", "w", "e", "v", "e", "r">>, i |-> TRUE],
      [lit |-> <<"d", "e", "s", "p", "i", "t", "e">>, i |-> TRUE],
      [lit |-> <<"a", "l", "t", "h", "o", "u", "g", "h">>, i |-> TRUE],
      [lit |-> <<"w", "h", "i", "l", "e">>, i |-> TRUE],
      [lit |-> <<"c", "o", "n", "s", "e", "q", "u", "e", "n", "t", "l", "y">>, i |-> TRUE],
      [lit |-> <<"a", "s", " ", "a", " ", "r", "e", "s", "u", "l", "t">>, i |-> TRUE]
    >>

\* actionablePatterns, lines 307-318.
actionablePatterns ==
    <<
      [lit |-> <<"c", "a", "r", "e", " ", "p", "r", "o", "v", "i", "d", "e", "r", "s", " ", "s", "h", "o", "u", "l", "d">>, i |-> TRUE],
      [lit |-> <<"c", "a", "r", "e", " ", "w", "o", "r", "k", "e", "r", "s", " ", "c", "a", "n">>, i |-> TRUE],
      [lit |-> <<"t", "h", "i", "s", " ", "m", "e", "a", "n", "s">>, i |-> TRUE],
      [lit |-> <<"t", "h", "e", " ", "k", "e", "y", " ", "t", "a", "k", "e", "a", "w", "a", "y">>, i |-> TRUE],
      [lit |-> <<"i", "n", " ", "p", "r", "a", "c", "t", "i", "c", "e">>, i |-> TRUE],
      [lit |-> <<"p", "r", "a", "c", "t", "i", "c", "a", "l">>, i |-> TRUE],
      [lit |-> <<"s", "t", "e", "p", "s", " ", "t", "o">>, i |-> TRUE],
      [lit |-> <<"h", "o", "w", " ", "t", "o">>, i |-> TRUE],
      [lit |-> <<"w", "h", "a", "t", " ", "t", "h", "i", "s", " ", "m", "e", "a", "n", "s", " ", "f", "o", "r">>, i |-> TRUE],
      [lit |-> <<"i", "m", "p", "l", "i", "c", "a", "t", "i", "o", "n", "s", " ", "f", "o", "r">>, i |-> TRUE]
    >>

\* americanSpellings, lines 340-363: each between two word boundaries.
americanSpellings ==
    <<
      [lit |-> <<"o", "r", "g", "a", "n", "i", "z", "a", "t", "i", "o", "n">>, i |-> TRUE, instead |-> "organisation"],
      [lit |-> <<"o", "r", "g", "a", "n", "i", "z", "e">>, i |-> TRUE, instead |-> "organise"],
      [lit |-> <<"o", "r", "g", "a", "n", "i", "z", "i", "n", "g">>, i |-> TRUE, instead |-> "organising"],
      [lit |-> <<"r", "e", "c", "o", "g", "n", "i", "z", "e">>, i |-> TRUE, instead |-> "recognise"],
      [lit |-> <<"r", "e", "c", "o", "g", "n", "i", "z", "i", "n", "g">>, i |-> TRUE, instead |-> "recognising"],
      [lit |-> <<"a", "n", "a", "l", "y", "z", "e">>, i |-> TRUE, instead |-> "analyse"],
      [lit |-> <<"a", "n", "a", "l", "y", "z", "i", "n", "g">>, i |-> TRUE, instead |-> "analysing"],
      [lit |-> <<"c", "e", "n", "t", "e", "r">>, i |-> TRUE, instead |-> "centre"],
      [lit |-> <<"c", "o", "l", "o", "r">>, i |-> TRUE, instead |-> "colour"],
      [lit |-> <<"f", "a", "v", "o", "r">>, i |-> TRUE, instead |-> "favour"],
      [lit |-> <<"h", "o", "n", "o", "r">>, i |-> TRUE, instead |-> "honour"],
      [lit |-> <<"l", "a", "b", "o", "r">>, i |-> TRUE, instead |-> "labour"],
      [lit |-> <<"p", "r", "o", "g", "r", "a", "m">>, i |-> TRUE, instead |-> "programme"],
      [lit |-> <<"s", "p", "e", "c", "i", "a", "l", "i", "z", "e">>, i |-> TRUE, instead |-> "specialise"],
      [lit |-> <<"s", "p", "e", "c", "i", "a", "l", "i", "z", "e", "d">>, i |-> TRUE, instead |-> "specialised"],
      [lit |-> <<"m", "i", "n", "i", "m", "i", "z", "e">>, i |-> TRUE, instead |-> "minimise"],
      [lit |-> <<"m", "a", "x", "i", "m", "i", "z", "e">>, i |-> TRUE, instead |-> "maximise"],
      [lit |-> <<"p", "r", "i", "o", "r", "i", "t", "i", "z", "e">>, i |-> TRUE, instead |-> "prioritise"],
      [lit |-> <<"u", "t", "i", "l", "i", "z", "e">>, i |-> TRUE, instead |-> "utilise"],
      [lit |-> <<"d", "e", "f", "e", "n", "s", "e">>, i |-> TRUE, instead |-> "defence"],
      [lit |-> <<"l", "i", "c", "e", "n", "s", "e">>, i |-> TRUE, instead |-> "licence"],
      [lit |-> <<"p", "r", "a", "c", "t", "i", "c", "e">>, i |-> TRUE, instead |-> "practise"]
    >>

\* wrongTerminology, lines 379-385: each between two word boundaries.
wrongTerminology ==
    <<
      [lit |-> <<"n", "u", "r", "s", "i", "n", "g", " ", "h", "o", "m", "e">>, i |-> TRUE, instead |-> "care home"],
      [lit |-> <<"c", "a", "r", "e", "g", "i", "v", "e", "r">>, i |-> TRUE, instead |-> "carer or care worker"],
      [lit |-> <<"l", "o", "c", "a", "l", " ", "g", "o", "v", "e", "r", "n", "m", "e", "n", "t">>, i |-> TRUE, instead |-> "local authority"],
      [lit |-> <<"c", "h", "i", "l", "d", " ", "p", "r", "o", "t", "e", "c", "t", "i", "o", "n">>, i |-> TRUE, instead |-> "safeguarding"],
      [lit |-> <<"a", "d", "u", "l", "t", " ", "p", "r", "o", "t", "e", "c", "t", "i", "o", "n">>, i |-> TRUE, instead |-> "safeguarding"]
    >>

\* requiredFields, line 208, each followed by a colon.
requiredFields ==
    <<
      <<"t", "i", "t", "l", "e", ":">>,
      <<"s", "l", "u", "g", ":">>,
      <<"e", "x", "c", "e", "r", "p", "t", ":">>,
      <<"p", "u", "b", "l", "i", "s", "h", "e", "d", "A", "t", ":">>,
      <<"c", "a", "t", "e", "g", "o", "r", "y", ":">>,
      <<"r", "e", "a", "d", "T", "i", "m", "e", ":">>,
      <<"a", "u", "t", "h", "o", "r", ":">>,
      <<"t", "a", "g", "s", ":">>
    >>


\* The least and the greatest of a non-empty set of numbers.
Least(S) == CHOOSE m \in S : \A n \in S : m <= n

Greatest(S) == CHOOSE m \in S : \A n \in S : m >= n

Spaces == {" ", "\n", "\t"}

\* Whether a literal stands in the text at position i.
LiteralAt(text, lit, i) ==
    /\ i + Len(lit) - 1 <= Len(text)
    /\ \A k \in 1..Len(lit) : text[i + k - 1] = lit[k]

\* The matches of a pattern are a function: the position where a match can
\* start |-> the position after its end.
LiteralMatches(text, lit) ==
    [i \in {j \in 1..(Len(text) - Len(lit) + 1) :
               \A k \in 1..Len(lit) : text[j + k - 1] = lit[k]} |-> i + Len(lit)]

\* A pattern with the i flag is matched against the text in lower case.
PatternMatches(text, low, pat) == LiteralMatches(IF pat.i THEN low ELSE text, pat.lit)

\* /\bliteral\b/gi
WordMatches(low, pat) ==
    [i \in {j \in DOMAIN LiteralMatches(low, pat.lit) :
               WordBoundary(low, j) /\ WordBoundary(low, j + Len(pat.lit))}
        |-> i + Len(pat.lit)]

\* /alt1|alt2|.../gi: at a position the first alternative that matches wins.
AltMatches(low, alts) ==
    LET at(j) == {a \in 1..Len(alts) : LiteralAt(low, alts[a].lit, j)}
    IN [i \in {j \in 1..Len(low) : at(j) # {}} |-> i + Len(alts[Least(at(i))].lit)]

\* String.prototype.match with the g flag: the leftmost match, then the
\* leftmost match after its end, and so on.  The starts of the matches.
RECURSIVE Scan(_, _)
Scan(M, from) ==
    LET S == {i \in DOMAIN M : i >= from}
    IN IF S = {} THEN <<>> ELSE <<Least(S)>> \o Scan(M, M[Least(S)])

\* matches.length
MatchCount(M) == Len(Scan(M, 1))

Matched(text, M, i) == SubSeq(text, i, M[i] - 1)

\* matches[0]
FirstMatch(text, M) == Matched(text, M, Least(DOMAIN M))

\* The end of the run of characters of a class that starts at i: the first
\* position from i on that holds no character of the class.
RunEnd(text, i, class) ==
    CHOOSE e \in i..(Len(text) + 1) :
        /\ e = Len(text) + 1 \/ text[e] \notin class
        /\ \A m \in i..(e - 1) : text[m] \in class

\* /\d+%/g
PercentMatches(text) ==
    [i \in {j \in 1..Len(text) :
               /\ text[j] \in Digits
               /\ RunEnd(text, j, Digits) <= Len(text)
               /\ text[RunEnd(text, j, Digits)] = "%"}
        |-> RunEnd(text, i, Digits) + 1]

\* /£[\d,]+/g
PoundMatches(text) ==
    [i \in {j \in 1..(Len(text) - 1) :
               text[j] = "pound" /\ text[j + 1] \in Digits \cup {","}}
        |-> RunEnd(text, i + 1, Digits \cup {","})]

\* (,\d{3})+ from position e on: the position after the last group.
RECURSIVE GroupsEnd(_, _)
GroupsEnd(text, e) ==
    IF /\ e + 3 <= Len(text)
       /\ text[e] = ","
       /\ \A m \in (e + 1)..(e + 3) : text[m] \in Digits
    THEN GroupsEnd(text, e + 4)
    ELSE e

\* The lengths \d{1,3} can take at j with at least one group after it.
LeadLengths(text, j) ==
    {n \in 1..3 :
        /\ \A m \in j..(j + n - 1) : m <= Len(text) /\ text[m] \in Digits
        /\ GroupsEnd(text, j + n) > j + n}

\* /\d{1,3}(,\d{3})+/g
ThousandsMatches(text) ==
    [i \in {j \in 1..Len(text) : text[j] \in Digits /\ LeadLengths(text, j) # {}}
        |-> GroupsEnd(text, i + Greatest(LeadLengths(text, i)))]

\* /\d+\.\d+/g
DecimalMatches(text) ==
    [i \in {j \in 1..Len(text) :
               /\ text[j] \in Digits
               /\ RunEnd(text, j, Digits) < Len(text)
               /\ text[RunEnd(text, j, Digits)] = "."
               /\ text[RunEnd(text, j, Digits) + 1] \in Digits}
        |-> RunEnd(text, RunEnd(text, i, Digits) + 1, Digits)]

\* /\[\d+\]/g
BracketMatches(text) ==
    [i \in {j \in 1..(Len(text) - 2) :
               /\ text[j] = "["
               /\ text[j + 1] \in Digits
               /\ RunEnd(text, j + 1, Digits) <= Len(text)
               /\ text[RunEnd(text, j + 1, Digits)] = "]"}
        |-> RunEnd(text, i + 1, Digits) + 1]

\* The sum of matches.length over the patterns of a list.
RECURSIVE TotalMatches(_, _, _)
TotalMatches(text, low, patterns) ==
    IF patterns = <<>> THEN 0
    ELSE MatchCount(PatternMatches(text, low, Head(patterns)))
         + TotalMatches(text, low, Tail(patterns))

\* A QualityIssue; the detail is the part of the description or the example
\* that is taken from the article.
Issue(severity, category, description, detail) ==
    [severity |-> severity, category |-> category, description |-> description,
     detail |-> detail]

\* What a check does: the points it takes off a dimension and the issues it
\* pushes.
NoFinding == [penalty |-> 0, issues |-> <<>>]

Finding(penalty, issue) == [penalty |-> penalty, issues |-> <<issue>>]

RECURSIVE AllOf(_)
AllOf(checks) ==
    IF checks = <<>> THEN NoFinding
    ELSE LET rest == AllOf(Tail(checks))
         IN [penalty |-> Head(checks).penalty + rest.penalty,
             issues |-> Head(checks).issues \o rest.issues]

\* Lines 68-80.
PlaceholderCheck(text, low) ==
    AllOf([k \in 1..Len(placeholderPatterns) |->
            LET M == PatternMatches(text, low, placeholderPatterns[k])
            IN IF DOMAIN M = {} THEN NoFinding
               ELSE Finding(15 * MatchCount(M),
                            Issue("critical", "Data Quality", "Found placeholder data",
                                  FirstMatch(text, M)))])

MissingKeyData ==
    Finding(15, Issue("major", "Data Quality", "Missing Key Data Summary table", <<>>))

\* Lines 83-104.  /Key Data Summary[\s\S]*?\|[\s\S]*?\|/ matches from the
\* first "Key Data Summary" to the second "|" after it.
KeyDataCheck(text) ==
    LET S == DOMAIN LiteralMatches(text, KeyDataHeading)
    IN IF S = {} THEN MissingKeyData
       ELSE LET i == Least(S)
                pipes == {p \in (i + Len(KeyDataHeading))..Len(text) : text[p] = "|"}
            IN IF Cardinality(pipes) < 2 THEN MissingKeyData
               ELSE IF \E m \in i..Least(pipes \ {Least(pipes)}) : text[m] \in Digits
               THEN NoFinding
               ELSE Finding(20, Issue("critical", "Data Quality",
                                      "Key Data Summary table lacks specific numbers", <<>>))

\* Lines 107-117.
statCount(text) ==
    MatchCount(PercentMatches(text)) + MatchCount(PoundMatches(text))
    + MatchCount(ThousandsMatches(text)) + MatchCount(DecimalMatches(text))

\* Lines 119-127.
StatCheck(text) ==
    IF statCount(text) < 5
    THEN Finding(15, Issue("major", "Data Quality", "Only statistics found",
                           <<statCount(text)>>))
    ELSE NoFinding

\* Lines 134-143.
CitationCheck(low) ==
    IF MatchCount(AltMatches(low, inlineCitationPattern)) < 3
    THEN Finding(20, Issue("major", "Source Attribution",
                           "Insufficient inline source attribution", <<>>))
    ELSE NoFinding

\* Lines 146-156; the example is the first three citations.
BracketCheck(text) ==
    LET M == BracketMatches(text)
        starts == Scan(M, 1)
    IN IF Len(starts) > 3
       THEN Finding(15, Issue("major", "Source Attribution",
                              "Using academic-style bracket citations",
                              <<Matched(text, M, starts[1]), Matched(text, M, starts[2]),
                                Matched(text, M, starts[3])>>))
       ELSE NoFinding

\* Mutant: the missing references section is reported as a major issue.
MissingSourcesIssueMajor ==
    Issue("major", "Source Attribution", "Missing Sources section", <<>>)

MissingSourcesIssue ==
    Issue("critical", "Source Attribution", "Missing Sources section", <<>>)

\* Lines 159-167.
SourcesCheck(text) ==
    IF ~Includes(text, SourcesHeading)
    THEN Finding(25, MissingSourcesIssue)
    ELSE NoFinding

\* /\\\\[*_]/
EscapedMarkdown(text) ==
    \E i \in 1..(Len(text) - 2) :
        text[i] = "\\" /\ text[i + 1] = "\\" /\ text[i + 2] \in {"*", "_"}

\* /\n\s*\\[*]/
BrokenBullet(text) ==
    \E i \in 1..Len(text) :
        /\ text[i] = "\n"
        /\ RunEnd(text, i + 1, Spaces) < Len(text)
        /\ text[RunEnd(text, i + 1, Spaces)] = "\\"
        /\ text[RunEnd(text, i + 1, Spaces) + 1] = "*"

\* /\*\*\s+\*\*/
EmptyBold(text) ==
    \E i \in 1..(Len(text) - 2) :
        /\ text[i] = "*" /\ text[i + 1] = "*" /\ text[i + 2] \in Spaces
        /\ RunEnd(text, i + 2, Spaces) < Len(text)
        /\ text[RunEnd(text, i + 2, Spaces)] = "*"
        /\ text[RunEnd(text, i + 2, Spaces) + 1] = "*"

\* /##\s*$/: without the m flag $ is the end of the text.
EmptyHeading(text) ==
    \E i \in 1..(Len(text) - 1) :
        /\ text[i] = "#" /\ text[i + 1] = "#"
        /\ RunEnd(text, i + 2, Spaces) = Len(text) + 1

\* /\n#+[^\s]/: #+ gives characters back, so a second # is a match already.
HeadingNoSpace(text) ==
    \E i \in 1..(Len(text) - 2) :
        /\ text[i] = "\n" /\ text[i + 1] = "#"
        /\ \E k \in (i + 2)..Len(text) :
              /\ \A m \in (i + 1)..(k - 1) : text[m] = "#"
              /\ text[k] \notin Spaces

Broken(name) ==
    Finding(15, Issue("major", "Formatting", "Found broken markdown", <<name>>))

\* Lines 174-192.
BrokenCheck(text) ==
    AllOf(<<IF EscapedMarkdown(text) THEN Broken("escaped markdown characters")
            ELSE NoFinding,
            IF BrokenBullet(text) THEN Broken("broken bullet points") ELSE NoFinding,
            IF EmptyBold(text) THEN Broken("empty bold text") ELSE NoFinding,
            IF EmptyHeading(text) THEN Broken("empty headings") ELSE NoFinding,
            IF HeadingNoSpace(text) THEN Broken("headings without space after #")
            ELSE NoFinding>>)

\* The newlines that /^---\s*\n([\s\S]*?)\n---/ can take as its first \n:
\* those of the white space after the opening dashes that have a closing
\* "\n---" somewhere after them.
FrontmatterNewlines(text) ==
    {n \in 4..(RunEnd(text, 4, Spaces) - 1) :
        /\ text[n] = "\n"
        /\ \E p \in DOMAIN LiteralMatches(text, Closer) : p > n}

\* frontmatterMatch[1]: \s* is greedy and takes the last of these newlines,
\* the group is lazy and ends at the first closing "\n---" after it.
Frontmatter(text) ==
    LET n == Greatest(FrontmatterNewlines(text))
        p == Least({q \in DOMAIN LiteralMatches(text, Closer) : q > n})
    IN SubSeq(text, n + 1, p - 1)

missingFields(frontmatter) ==
    SelectSeq(requiredFields, LAMBDA field : ~Includes(frontmatter, field))

\* Lines 195-221.
FrontmatterCheck(text) ==
    IF ~LiteralAt(text, Dashes, 1)
    THEN Finding(25, Issue("critical", "Formatting", "Missing frontmatter", <<>>))
    ELSE IF FrontmatterNewlines(text) = {} THEN NoFinding
    ELSE LET missing == missingFields(Frontmatter(text))
         IN IF Len(missing) > 0
            THEN Finding(5 * Len(missing),
                         Issue("major", "Formatting", "Missing frontmatter fields", missing))
            ELSE NoFinding

\* Math.min
MathMin(a, b) == IF a <= b THEN a ELSE b

\* Lines 242-256.
FillerCheck(text, low) ==
    LET fillerCount == TotalMatches(text, low, fillerPhrases)
    IN IF fillerCount > 3
       THEN Finding(10 * MathMin(fillerCount - 3, 5),
                    Issue("minor", "Depth", "Found filler phrases", <<fillerCount>>))
       ELSE NoFinding

\* Lines 274-288.
AnalysisCheck(text, low) ==
    IF TotalMatches(text, low, analysisIndicators) < 5
    THEN Finding(15, Issue("major", "Depth", "Article lacks analytical depth", <<>>))
    ELSE NoFinding

\* article.split(/\s+/).length: one more than the runs of white space.
wordCount(text) ==
    Cardinality({i \in 1..Len(text) :
                    text[i] \in Spaces /\ (i = 1 \/ text[i - 1] \notin Spaces)}) + 1

\* Lines 295-304.
WordCountCheck(text) ==
    IF wordCount(text) < 600
    THEN Finding(20, Issue("major", "Actionability", "Article too short",
                           <<wordCount(text)>>))
    ELSE NoFinding

\* Lines 320-334.
ActionableCheck(text, low) ==
    IF TotalMatches(text, low, actionablePatterns) < 2
    THEN Finding(15, Issue("minor", "Actionability",
                           "Article lacks practical takeaways", <<>>))
    ELSE NoFinding

\* Lines 365-376.
AmericanCheck(text, low) ==
    AllOf([k \in 1..Len(americanSpellings) |->
            LET M == WordMatches(low, americanSpellings[k])
            IN IF DOMAIN M = {} THEN NoFinding
               ELSE Finding(5 * MatchCount(M),
                            Issue("minor", "British English",
                                  americanSpellings[k].instead, FirstMatch(text, M)))])

\* Lines 387-398.
TerminologyCheck(text, low) ==
    AllOf([k \in 1..Len(wrongTerminology) |->
            LET M == WordMatches(low, wrongTerminology[k])
            IN IF DOMAIN M = {} THEN NoFinding
               ELSE Finding(10, Issue("minor", "UK Terminology",
                                      wrongTerminology[k].instead, FirstMatch(text, M)))])

\* Mutant: a score below 0 is kept.
ClampNone(score) == score

\* Math.max(0, score), line 406.
Clamp(score) == IF score < 0 THEN 0 ELSE score

\* Mutant: data quality weighs 0.3, and the weights sum to 1.05.
WeightsHeavy ==
    [dataQuality |-> 6, sourceAttribution |-> 4, formatting |-> 3, depth |-> 4,
     actionability |-> 2, britishEnglish |-> 2]

\* weights, lines 410-417, in twentieths: 0.25, 0.2, 0.15, 0.2, 0.1, 0.1.
Weights ==
    [dataQuality |-> 5, sourceAttribution |-> 4, formatting |-> 3, depth |-> 4,
     actionability |-> 2, britishEnglish |-> 2]

RECURSIVE WeightedSum(_, _)
WeightedSum(scores, dims) ==
    IF dims = <<>> THEN 0
    ELSE scores[Head(dims)] * Weights[Head(dims)] + WeightedSum(scores, Tail(dims))

\* Math.round of a number of twentieths that is not negative.  The scores
\* are multiples of 5, and for these the sum in double precision rounds as
\* the exact sum does.
MathRound(twentieths) == (twentieths + 10) \div 20

\* Lines 419-424.
Overall(scores) == MathRound(WeightedSum(scores, Dimensions))

\* issues.sort by severity, lines 429-432; the sort is stable.
SortBySeverity(issues) ==
    SelectSeq(issues, LAMBDA x : x.severity = "critical")
    \o SelectSeq(issues, LAMBDA x : x.severity = "major")
    \o SelectSeq(issues, LAMBDA x : x.severity = "minor")

\* Mutant: the issues array outlives the call.
IssuesKept == review.issues

\* const issues = [], line 35.
NewIssues == <<>>

\* low is the text as the patterns with the i flag read it.
reviewArticleQuality(text) ==
    LET low == ToLower(text) \o <<>>
        data == AllOf(<<PlaceholderCheck(text, low), KeyDataCheck(text), StatCheck(text)>>)
        source == AllOf(<<CitationCheck(low), BracketCheck(text), SourcesCheck(text)>>)
        format == AllOf(<<BrokenCheck(text), FrontmatterCheck(text)>>)
        depth == AllOf(<<FillerCheck(text, low), AnalysisCheck(text, low)>>)
        action == AllOf(<<WordCountCheck(text), ActionableCheck(text, low)>>)
        british == AllOf(<<AmericanCheck(text, low), TerminologyCheck(text, low)>>)
        raw == [dataQuality |-> 100 - data.penalty,
                sourceAttribution |-> 100 - source.penalty,
                formatting |-> 100 - format.penalty,
                depth |-> 100 - depth.penalty,
                actionability |-> 100 - action.penalty,
                britishEnglish |-> 100 - british.penalty]
        scores == [dataQuality |-> Clamp(raw.dataQuality),
                   sourceAttribution |-> Clamp(raw.sourceAttribution),
                   formatting |-> Clamp(raw.formatting),
                   depth |-> Clamp(raw.depth),
                   actionability |-> Clamp(raw.actionability),
                   britishEnglish |-> Clamp(raw.britishEnglish)]
        issues == NewIssues \o data.issues \o source.issues \o format.issues
                  \o depth.issues \o action.issues \o british.issues
    IN [called |-> TRUE,
        overall |-> Overall(scores),
        breakdown |-> scores,
        issues |-> SortBySeverity(issues),
        passesThreshold |-> Overall(scores) >= QUALITY_THRESHOLD,
        unclamped |-> raw]

\* A frontmatter block with the eight required fields.
FrontFull ==
    <<"-", "-", "-", "\n", "t", "i", "t", "l", "e", ":", " ", "a", "\n",
      "s", "l", "u", "g", ":", " ", "a", "\n", "e", "x", "c", "e", "r",
      "p", "t", ":", " ", "a", "\n", "p", "u", "b", "l", "i", "s", "h",
      "e", "d", "A", "t", ":", " ", "a", "\n", "c", "a", "t", "e", "g",
      "o", "r", "y", ":", " ", "a", "\n", "r", "e", "a", "d", "T", "i",
      "m", "e", ":", " ", "a", "\n", "a", "u", "t", "h", "o", "r", ":",
      " ", "a", "\n", "t", "a", "g", "s", ":", " ", "a", "\n", "-", "-",
      "-", "\n">>

\* A frontmatter block with two of the required fields.
FrontPart ==
    <<"-", "-", "-", "\n", "\n", "t", "i", "t", "l", "e", ":", " ", "a",
      "\n", "a", "u", "t", "h", "o", "r", ":", " ", "a", "\n", "-", "-",
      "-", "\n">>

\* A data table with five statistics.
DataTable ==
    <<"K", "e", "y", " ", "D", "a", "t", "a", " ", "S", "u", "m", "m", "a",
      "r", "y", " ", "|", " ", "4", "5", "%", " ", "|", " ", "1", "2", "%",
      " ", "|", " ", "3", ".", "5", " ", "7", ".", "5", " ", "1", ",", "2",
      "0", "0", " ">>

\* A data table of placeholders.
EmptyTable ==
    <<"K", "e", "y", " ", "D", "a", "t", "a", " ", "S", "u", "m", "m", "a",
      "r", "y", " ", "|", " ", "T", "B", "C", " ", "|", " ", "T", "B", "D",
      " ", "|", " ">>

\* Three inline citations.
Cited ==
    <<"A", "c", "c", "o", "r", "d", "i", "n", "g", " ", "t", "o", " ", "x",
      " ", "r", "e", "p", "o", "r", "t", "e", "d", " ", "b", "y", " ", "y",
      " ", "d", "a", "t", "a", " ", "f", "r", "o", "m", " ", "z", " ", "[",
      "1", "]", " ">>

\* Five analysis indicators.
Analysed ==
    <<"h", "o", "w", "e", "v", "e", "r", " ", "d", "e", "s", "p", "i", "t",
      "e", " ", "a", "l", "t", "h", "o", "u", "g", "h", " ", "w", "h", "i",
      "l", "e", " ", "c", "o", "n", "s", "e", "q", "u", "e", "n", "t", "l",
      "y", " ">>

\* Two actionable phrases.
Practical ==
    <<"h", "o", "w", " ", "t", "o", " ", "s", "t", "e", "p", "s", " ", "t",
      "o", " ">>

\* The references heading inside a line.
SourcesInline ==
    <<" ", "#", "#", " ", "S", "o", "u", "r", "c", "e", "s", " ", "a">>

\* The references heading on a line of its own.
SourcesLine ==
    <<"\n", "#", "#", " ", "S", "o", "u", "r", "c", "e", "s", "\n", "a">>

\* Three placeholder tokens.
Placeholders ==
    <<"T", "B", "C", " ", "[", "I", "n", "s", "e", "r", "t", " ", "f", "i",
      "g", "u", "r", "e", "]", " ", "X", "X", "%", " ">>

\* American spellings and terminology.
American ==
    <<"C", "o", "l", "o", "r", " ", "c", "e", "n", "t", "e", "r", " ", "l",
      "a", "b", "o", "r", " ", "n", "u", "r", "s", "i", "n", "g", " ", "h",
      "o", "m", "e", " ", "c", "a", "r", "e", "g", "i", "v", "e", "r", "s",
      " ">>

\* Five filler phrases.
Filler ==
    <<"g", "o", "i", "n", "g", " ", "f", "o", "r", "w", "a", "r", "d", " ",
      "g", "o", "i", "n", "g", " ", "f", "o", "r", "w", "a", "r", "d", " ",
      "g", "o", "i", "n", "g", " ", "f", "o", "r", "w", "a", "r", "d", " ",
      "n", "e", "e", "d", "l", "e", "s", "s", " ", "t", "o", " ", "s", "a",
      "y", " ", "a", "s", " ", "w", "e", " ", "a", "l", "l", " ", "k", "n",
      "o", "w", " ">>

\* Broken markdown, bracket citations and an empty heading at the end.
BrokenMarkdown ==
    <<"\\", "\\", "*", " ", "*", "*", " ", "*", "*", " ", "\n", " ", "\\",
      "*", " ", "[", "1", "]", " ", "[", "2", "]", " ", "[", "3", "]", " ",
      "[", "4", "]", " ", "1", ",", "0", "0", "0", ",", "0", "0", "0", " ",
      "pound", "5", ",", "0", "0", "0", " ", "#", "#", "\n">>

\* String.prototype.repeat
Repeat(text, n) == [i \in 1..(n * Len(text)) |-> text[((i - 1) % Len(text)) + 1]]

\* An article of 600 words and more that breaks no rule.
Complete ==
    FrontFull \o DataTable \o Cited \o Analysed \o Practical
    \o Repeat(<<"a", " ">>, 600) \o SourcesInline

\* The texts the model passes to the tool.
Articles ==
    { Complete,
      Placeholders \o Analysed,
      Placeholders \o Placeholders \o Placeholders \o Repeat(<<"c", "o", "l", "o", "r", " ">>, 21),
      Placeholders \o SourcesInline,
      EmptyTable \o SourcesLine,
      FrontPart \o DataTable \o Cited \o American \o SourcesInline,
      FrontFull \o Filler \o Practical \o BrokenMarkdown,
      Dashes \o Repeat(<<"T", "B", "C", " ">>, 3) \o DataTable \o Cited }

\* Bound of the calls of the tool in one run.
MaxReviews == 3

\* The reviewArticleQuality tool of the Chronicle agent: the function is
\* called on the text the model passes.  firstReview keeps the first call of
\* the run and counts the calls on other texts after it.
ReviewTool(text) ==
    /\ firstReview.calls < MaxReviews
    /\ article' = text
    /\ review' = reviewArticleQuality(text)
    /\ firstReview' =
          IF firstReview.calls = 0
          THEN [calls |-> 1, text |-> text, result |-> review', between |-> 0]
          ELSE [firstReview EXCEPT !.calls = @ + 1,
                                   !.between = IF text # firstReview.text THEN @ + 1 ELSE @]

NextReview == \E text \in Articles : ReviewTool(text)

ReviewStep ==
    NextReview /\ UNCHANGED <<storeVars, routeVars, agentVars, invocations, slackVars,
                              httpVars>>

InitReview == InitTrim

SpecReview == InitReview /\ [][ReviewStep]_vars

----------------------------------------------------------------------------
(* Claims                                                                   *)

\* C1: in every thread of the store the retained message sequence holds at
\* most MAX_MESSAGES (50) messages after any operation has returned.
C1_MessageCap ==
    \A t \in DOMAIN conversations : Len(conversations[t].messages) <= MAX_MESSAGES

\* More messages were appended to a live thread than the cap allows.
C1_Witness ==
    \E t \in DOMAIN conversations :
        /\ Len(appended[t]) > MAX_MESSAGES
        /\ Len(conversations[t].messages) = KeepCount + 1

LegacyOrder == <<"scout", "sage", "chronicle", "maven">>

SdkOrder == <<"trends", "scout", "sage", "chronicle">>

LegacyRuleMatches(i, text) ==
    LET keywords == <<ScoutKeywords, SageKeywords, ChronicleKeywords, MavenKeywords>>
    IN \E k \in keywords[i] : Includes(ToLower(text), k)

SdkRuleMatches(i, text) ==
    LET patterns == <<TrendsPattern, ScoutPattern, SagePattern, ChroniclePattern>>
    IN RegexTest(patterns[i], ToLower(text))

Routed == pc # "route" /\ pc # "idle" /\ HasUserText(ctx.messages)

Utterance == LastUserMessage(ctx.messages).content.chars

Returned == pc = "done" /\ reply.status = "returned"

\* C3 (as stated): whenever a dispatch invocation returns a reply for a
\* thread, the store holds that thread, the last message of its sequence is
\* an assistant message, and the thread's current agent is the agent that
\* produced the reply.
C3_ReplyAppended ==
    Returned =>
        /\ Has(ctx.threadId)
        /\ getMessages(ctx.threadId) # <<>>
        /\ LET messages == getMessages(ctx.threadId)
           IN messages[Len(messages)].role = "assistant"
        /\ getCurrentAgent(ctx.threadId) = reply.agent

\* The handoff agent's own response asks for a further registered agent.
SecondSignals ==
    /\ Len(invoked) = 2
    /\ response.status = "returned"
    /\ response.shouldHandoff.to \in RegisteredAgents

\* C4: Orchestrator.handle invokes at most two agents, returns the second
\* agent's response as it is when it has redirected once, whatever handoff
\* signal that response carries, and every dispatch terminates.
C4_HandoffCapped ==
    /\ [](/\ Len(invoked) <= 2
          /\ Returned /\ Len(invoked) = 2 =>
                /\ reply = response
                /\ reply.agent = invoked[2].agent
                /\ run.agent = invoked[2].agent)
    /\ <>(pc = "done")

C4_Witness == Returned /\ SecondSignals /\ reply.agent = response.shouldHandoff.to

\* A model call of the current handleRequest invocation has failed.
ModelCallFailed == run.failure # "none"

\* C5 (as stated): when a model call has failed (transport error, non-OK
\* status, malformed response) the response handleRequest returns has the
\* handling agent's default error string as its text and the handling agent
\* as its agent; for the SDK handleRequest the same, its error text coming
\* under the header every SDK reply carries.
C5_FailureBecomesErrorString ==
    /\ response.status = "returned" /\ ModelCallFailed =>
          /\ response.text = getErrorMessage(run.agent)
          /\ response.agent = run.agent
    /\ Returned /\ orch = "sdk" /\ sdk.failure # "none" =>
          /\ reply.text = SdkHeader(target) \o SdkErrorText(target)
          /\ reply.agent = target

\* A capability executor has thrown in the current handleRequest invocation.
ExecutorThrew == \E i \in 1..Len(run.results) : run.results[i].content = "thrown"

\* C6 (as stated): when an executor has thrown, its result is an error
\* payload, and once handleRequest has returned, the follow-up request was
\* issued with all the results and the returned text is not empty.
C6_ExecutorFailureAnswered ==
    /\ \A i \in 1..Len(run.results) :
          run.results[i].content = "thrown" => run.results[i].error
    /\ response.status = "returned" /\ ExecutorThrew =>
          /\ run.followUpSent
          /\ run.followUpResults = run.results
          /\ Len(run.results) = Len(run.toolCalls)
          /\ response.text # <<>>

\* handleRequest has ended in its catch block.
Caught ==
    \/ run.failure = "throw"
    \/ run.failure = "malformed" /\ variant = "anthropic"

\* C7: one handleRequest invocation makes at most two model requests and
\* runs at most one round of tools; no call proposed by the follow-up
\* response is executed; when the first response proposes no calls there is
\* no follow-up request and its text, formatted, is the returned text.
C7_SingleRound ==
    /\ run.modelCalls <= 2
    /\ run.rounds <= 1
    /\ \A i \in 1..Len(run.executed) : run.executed[i].id \in CallIds
    /\ run.followUpSent => run.toolCalls # <<>>
    /\ response.status = "returned" /\ run.toolCalls = <<>> /\ ~Caught =>
          /\ run.modelCalls = 1
          /\ ~run.followUpSent
          /\ run.finalText = run.firstText
          /\ response.text = formatForSlack(run.firstText)

C7_Witness ==
    /\ response.status = "returned"
    /\ run.modelCalls = 2
    /\ Len(run.executed) = MaxCalls
    /\ run.finalText # run.firstText

\* C8: when executeTools has returned there is one result per proposed
\* call, in the order of the calls, each tagged with the id of its call;
\* while it runs, one result per call already handled.
C8_OneResultPerCall ==
    /\ pc = "tools" => Len(run.results) = run.idx - 1
    /\ pc = "followup" => Len(run.results) = Len(run.toolCalls)
    /\ pc \in {"tools", "followup"} =>
          \A i \in 1..Len(run.results) :
              run.results[i].tool_use_id = run.toolCalls[i].id

C8_Witness ==
    /\ pc = "followup"
    /\ Len(run.toolCalls) = 2
    /\ run.toolCalls[1].id # run.toolCalls[2].id
    /\ run.results[1].content = "notfound"
    /\ run.results[2].content = "thrown"

\* The answer of the fallback classifier as the code reads it: trimmed and
\* lower-cased, empty when the call failed.
FallbackAnswer ==
    IF fallback.kind = "ok" THEN ToLower(StrTrim(fallback.content)) ELSE <<>>

\* C11: when no rule set matched and the fallback classifier was called, the
\* classifier has returned (nothing was thrown) and its result is the
\* fallback's answer when that answer names scout, sage, chronicle or maven,
\* and maven when the call threw, had a non-OK status or answered anything else.
C11_FallbackValidated ==
    (Routed /\ orch = "legacy" /\ fallbackCalls > 0) =>
        /\ target \in KnownRoles
        /\ IF \E r \in KnownRoles : NameChars(r) = FallbackAnswer
           THEN NameChars(target) = FallbackAnswer
           ELSE target = "maven"

\* The fallback answered with the name of an agent the legacy classifier does
\* not know, and the request went to maven.
C11_Witness ==
    /\ Routed
    /\ orch = "legacy"
    /\ fallbackCalls = 1
    /\ FallbackAnswer = NameChars("trends")
    /\ target = "maven"

\* The user-role messages of a request, in order.
UserMessages(messages) == SelectSeq(messages, LAMBDA m : m.role = "user")

\* The agent that the latest user-role message and the fallback's answer
\* select under orchestrator o: nothing else of the request is read.
SelectedBy(o, users, answer) ==
    IF users = <<>> \/ users[Len(users)].content.type # "string" THEN "maven"
    ELSE LET text == users[Len(users)].content.chars
             legacy == {i \in 1..4 : LegacyRuleMatches(i, text)}
             sdkRules == {i \in 1..4 : SdkRuleMatches(i, text)}
             first(S) == CHOOSE i \in S : \A j \in S : i <= j
         IN IF o = "legacy"
            THEN IF legacy # {} THEN LegacyOrder[first(legacy)]
                 ELSE IF \E r \in KnownRoles : NameChars(r) = answer
                 THEN CHOOSE r \in KnownRoles : NameChars(r) = answer
                 ELSE "maven"
            ELSE IF sdkRules # {} THEN SdkOrder[first(sdkRules)] ELSE "maven"

\* C12: the selected agent is a function of the latest user-role message
\* (and of the fallback's answer): requests that agree on it get the same
\* agent whatever their earlier messages, their assistant messages, the
\* stored state of the thread and previousAgent are.
C12_LatestUserMessageOnly ==
    pc \notin {"route", "idle"} =>
        target = SelectedBy(orch, UserMessages(ctx.messages), FallbackAnswer)

\* A request routed to sage by its latest user message, although an earlier
\* user message and the last (assistant) message would select scout, and
\* previousAgent and the thread's stored current agent are scout.
C12_Witness ==
    /\ pc \notin {"route", "idle"}
    /\ orch = "legacy"
    /\ Len(ctx.messages) = 3
    /\ ctx.messages[3].role = "assistant"
    /\ ctx.messages[1].role = "user"
    /\ LegacyRuleMatches(1, ctx.messages[1].content.chars)
    /\ LegacyRuleMatches(1, ctx.messages[3].content.chars)
    /\ ctx.previousAgent = "scout"
    /\ getCurrentAgent(ctx.threadId) = "scout"
    /\ target = "sage"

\* The rule sets of orchestrator o that match the text.
MatchingRules(o, text) ==
    {i \in 1..4 : IF o = "legacy" THEN LegacyRuleMatches(i, text)
                  ELSE SdkRuleMatches(i, text)}

\* The text contains a trigger term of the research agent scout.
ScoutTrigger(o, text) ==
    IF o = "legacy" THEN LegacyRuleMatches(1, text) ELSE SdkRuleMatches(2, text)

Hello == <<"H", "e", "l", "l", "o">>

Got(t) == lastCall = [op |-> "getOrCreate", thread |-> t]

\* C14: when getOrCreate has returned, the thread's lastActivityAt is the
\* current time, and the lastActivityAt a getOrCreate call returns is never
\* below the one the call before it returned for the thread.
C14_LastActivityRefreshed ==
    \A t \in Threads :
        /\ Got(t) => /\ Has(t)
                      /\ conversations[t].lastActivityAt = now
                      /\ observed[t].at = now
        /\ observed[t].before <= observed[t].at

\* A second getOrCreate call for a thread has returned a later lastActivityAt
\* than the first, the thread holding messages in between.
C14_Witness ==
    /\ Got("T1")
    /\ observed["T1"].before >= 0
    /\ observed["T1"].before < observed["T1"].at
    /\ getMessages("T1") # <<>>

\* C15 as stated: when getOrCreate returns the state of a thread whose
\* currentAgent was set and that was not cleared since, currentAgent is set.
C15_Original ==
    \A t \in Threads :
        (Got(t) /\ observed[t].agentSet) => getCurrentAgent(t) # NullAgent

\* C15 amended: the same, unless the thread was cleared or the cleanup has
\* removed it since its currentAgent was set.
C15_AgentKeptUntilClearedOrSwept ==
    \A t \in Threads :
        (Got(t) /\ observed[t].agentSet /\ ~observed[t].swept)
            => getCurrentAgent(t) # NullAgent

\* The cleanup has removed the other thread, and getOrCreate returns this
\* one, refreshed in time, with the agent set for it.
C15_Witness ==
    /\ Got("T1")
    /\ observed["T1"].agentSet
    /\ ~observed["T1"].swept
    /\ observed["T2"].swept
    /\ now > TTL
    /\ getCurrentAgent("T1") = "scout"

\* C16: an addMessage call for a thread that is not in the store leaves the
\* store as it is: the thread is not created and no other thread changes.
C16_AppendToMissingThread ==
    [][\A t \in Threads :
          (Called("addMessage", t) /\ ~Has(t)) => conversations' = conversations]_vars

\* addMessage was called for a thread that is not in the store, another
\* thread being there.
C16_Witness ==
    /\ lastCall = [op |-> "addMessage", thread |-> "T1"]
    /\ ~Has("T1")
    /\ Has("T2")
    /\ getMessages("T2") # <<>>

\* C17: a run of the cleanup removes the threads idle for more than TTL and
\* no other thread, and leaves the threads it keeps as they are.
C17_SweepRemovesExpiredOnly ==
    [][Called("cleanup", "none") =>
          /\ DOMAIN conversations' =
                {t \in DOMAIN conversations :
                    now - conversations[t].lastActivityAt <= 2 * 60 * 60 * 1000}
          /\ \A t \in DOMAIN conversations' : conversations'[t] = conversations[t]]_vars

\* The cleanup has removed one thread and kept another that has been idle
\* for more than half the time-to-live.
C17_Witness ==
    /\ lastCall.op = "cleanup"
    /\ observed["T2"].swept
    /\ ~Has("T2")
    /\ Has("T1")
    /\ now - conversations["T1"].lastActivityAt > TTL \div 2

\* The handoff agent is about to execute the redirected request.
HandoffStarts == Len(invoked) = 2 /\ pc = "exec" /\ run.modelCalls = 0

\* C18 (as stated): when the handoff agent starts executing, the Intent
\* Classifier has not run again (the target is the agent the signal names,
\* no further fallback call was made), and the signal's context payload is
\* in the scratch data the store holds for that agent and the thread.
C18_HandoffPayloadMerged ==
    HandoffStarts =>
        /\ run.agent = invoked[2].agent
        /\ fallbackCalls <= 1
        /\ Has(ctx.threadId)
        /\ invoked[2].agent \in DOMAIN conversations[ctx.threadId].agentData
        /\ "payload" \in DOMAIN getAgentData(ctx.threadId, invoked[2].agent)

\* C19 (as stated): a registerTool call for a name that is registered leaves
\* the registered definition in place: no step replaces the definition of a
\* registered name.
C19_DuplicateRejected ==
    [][\A n \in DOMAIN tools : n \in DOMAIN tools' /\ tools'[n] = tools[n]]_vars

\* C20 (as stated): every call the executor was given had arguments that
\* satisfy the parameter schema, and a call to a registered tool with
\* arguments that violate it has an InvalidArguments payload as its result.
C20_ArgumentsValidated ==
    /\ \A i \in 1..Len(run.executed) : run.executed[i].arguments = "json"
    /\ \A i \in 1..Len(run.results) :
          (run.toolCalls[i].name \in DOMAIN tools
             /\ run.toolCalls[i].arguments = "invalid")
            => run.results[i].content = "invalidarguments"

\* The positions of a notification in the sequence given to onStage.
StagePositions(stage) == {i \in 1..Len(stages) : stages[i] = stage}

\* C28: an SDK request whose last user message is a string has notified
\* 'routing' exactly once and then 'thinking' exactly once, both before every
\* 'tool_call' and 'responding' notification of the request; before the
\* request is routed nothing has been notified.
C28_RoutingThenThinking ==
    /\ (orch = "sdk" /\ pc = "route") => stages = <<>>
    /\ (orch = "sdk" /\ pc \in {"query", "done"} /\ HasUserText(ctx.messages)) =>
           /\ StagePositions("routing") = {1}
           /\ StagePositions("thinking") = {2}
           /\ \A i \in 3..Len(stages) : stages[i] \in {"tool_call", "responding"}

\* An SDK request has returned after a tool call and the result message.
C28_Witness ==
    /\ orch = "sdk"
    /\ pc = "done"
    /\ HasUserText(ctx.messages)
    /\ StagePositions("tool_call") # {}
    /\ StagePositions("responding") # {}
    /\ reply.toolsUsed # <<>>

\* C29: the toolsUsed that AgentBase.handleRequest returns is the names of
\* the tool calls of the first model response, in the order they were
\* proposed: empty when the first call failed or proposed none, and all the
\* names otherwise, whatever the executors and the follow-up call did.
C29_ToolsUsedAreProposedNames ==
    (pc = "ret" /\ response.status = "returned") =>
        /\ response.toolsUsed = CallNames(run.toolCalls)
        /\ (run.modelCalls = 1) => (response.toolsUsed = <<>>)

\* The first response proposed a call to a tool that is not registered and
\* a call whose executor threw, and the follow-up model call failed.
C29_Witness ==
    /\ pc = "ret"
    /\ response.status = "returned"
    /\ run.followUpSent
    /\ run.failure = "throw"
    /\ Len(response.toolsUsed) = 2
    /\ \E i \in 1..2 : run.toolCalls[i].name \notin DOMAIN tools
    /\ \E i \in 1..Len(run.results) : run.results[i].content = "thrown"

\* The store operations that are addressed to one thread.
ThreadOperations == {"getOrCreate", "addMessage", "setAgentData", "getMessages", "clear"}

\* C30: a store operation addressed to a thread leaves every other thread
\* as it is: it is neither created nor deleted, and its messages, current
\* agent, agent data and lastActivityAt keep their values.
C30_OtherThreadsUntouched ==
    [][\A x \in Threads : \A y \in Threads \ {x} :
          (\E op \in ThreadOperations : Called(op, x)) =>
              /\ (y \in DOMAIN conversations') = (y \in DOMAIN conversations)
              /\ y \in DOMAIN conversations => conversations'[y] = conversations[y]]_vars

\* One thread was cleared while the other holds messages, an agent and
\* agent data.
C30_Witness ==
    /\ lastCall = [op |-> "clear", thread |-> "T1"]
    /\ ~Has("T1")
    /\ Has("T2")
    /\ Len(getMessages("T2")) >= 2
    /\ getCurrentAgent("T2") = "scout"
    /\ getAgentData("T2", "scout") # EmptyBag

\* Where a message stands in the sequence of the shared thread.
PositionsOf(m) ==
    {j \in 1..Len(getMessages(SharedThread)) : getMessages(SharedThread)[j] = m}

\* C27: under every interleaving of two callers on one thread, each message
\* a caller appended to the live thread stands in the thread's sequence
\* exactly once, a caller's messages stand in the order it appended them, and
\* the sequence holds nothing else.
C27_AppendsAtomic ==
    /\ \A i \in Invocations :
          LET sent == invocations[i].sent
          IN /\ \A k \in 1..Len(sent) : Cardinality(PositionsOf(sent[k])) = 1
             /\ \A k \in 1..Len(sent), l \in 1..Len(sent) :
                   k < l => \A p \in PositionsOf(sent[k]), q \in PositionsOf(sent[l]) : p < q
    /\ Len(getMessages(SharedThread)) =
           Len(invocations["A"].sent) + Len(invocations["B"].sent)

\* Both callers are done and their messages alternate in the thread.
C27_Witness ==
    /\ \A i \in Invocations : invocations[i].pc = "done" /\ Len(invocations[i].sent) = MaxTurn
    /\ PositionsOf(invocations["A"].sent[1]) = {1}
    /\ PositionsOf(invocations["B"].sent[1]) = {2}
    /\ PositionsOf(invocations["A"].sent[2]) = {3}

\* C25: when the handler has stopped the animation and its final update
\* (the response or the error text) has been applied, the thinking message
\* shows that final text: no frame of the animation is written after it.
C25_FinalWriteLast ==
    handler.pc = "done" /\ handler.outcome # "ignored" =>
        thinking.text \in {"response", "error"}

\* The request lacks a verification header.
HeadersMissing == request.timestamp = <<>> \/ request.signature = <<>>

\* The timestamp of the request is a number more than 300 seconds from the
\* current time.
TimestampStale ==
    /\ ~parseInt(request.timestamp).nan
    /\ \/ parseInt(request.timestamp).value > CurrentTime + 300
       \/ parseInt(request.timestamp).value < CurrentTime - 300

SignatureMismatch ==
    request.signature # Sign(SigningSecret, request.timestamp, request.body)

Unverifiable == HeadersMissing \/ TimestampStale \/ SignatureMismatch

C21_ScoresWithinRange ==
    review.called =>
        /\ DOMAIN review.breakdown = {Dimensions[k] : k \in 1..Len(Dimensions)}
        /\ \A d \in DOMAIN review.breakdown :
              /\ review.breakdown[d] \in 0..100
              /\ review.unclamped[d] <= 100
              /\ review.unclamped[d] >= 0 => review.breakdown[d] = review.unclamped[d]
              /\ review.unclamped[d] < 0 => review.breakdown[d] = 0

\* A text with nine placeholder tokens and 21 American spellings has been
\* reviewed: two dimensions fell below 0 and are reported as 0.
C21_Witness ==
    /\ review.called
    /\ review.unclamped.dataQuality < 0
    /\ review.unclamped.britishEnglish < 0
    /\ review.breakdown.dataQuality = 0
    /\ review.breakdown.britishEnglish = 0

\* C22: the overall score is the weighted sum of the six clamped dimension
\* scores, rounded to the nearest integer (a half rounds up), under fixed
\* weights that sum to 1 (20 twentieths); it is an integer from 0 to 100 and
\* it is 100 when every dimension is 100.
C22_OverallIsRoundedWeightedSum ==
    review.called =>
        LET sum == WeightedSum(review.breakdown, Dimensions)
        IN /\ WeightedSum([d \in DOMAIN review.breakdown |-> 1], Dimensions) = 20
           /\ review.overall \in 0..100
           /\ 20 * review.overall - 10 <= sum
           /\ sum < 20 * review.overall + 10
           /\ (\A d \in DOMAIN review.breakdown : review.breakdown[d] = 100)
                 => review.overall = 100

\* The article that breaks no rule has been reviewed: six scores of 100 and
\* an overall score of 100.
C22_Witness ==
    /\ review.called
    /\ article = Complete
    /\ \A d \in DOMAIN review.breakdown : review.breakdown[d] = 100
    /\ review.overall = 100
    /\ review.passesThreshold

PlaceholderTokens(text) ==
    TotalMatches(text, ToLower(text) \o <<>>, placeholderPatterns)

\* C24: for a text with exactly three placeholder tokens and no "## Sources"
\* section, the review reports a critical issue for the missing Sources
\* section and the dataQuality score is below 100.
C24_PlaceholdersAndNoSources ==
    review.called /\ PlaceholderTokens(article) = 3 /\ ~Includes(article, SourcesHeading)
        => /\ \E k \in 1..Len(review.issues) :
                /\ review.issues[k].severity = "critical"
                /\ review.issues[k].description = "Missing Sources section"
           /\ review.breakdown.dataQuality < 100

\* A text with the three tokens TBC, [Insert and XX% and no Sources heading
\* has been reviewed.
C24_Witness ==
    /\ review.called
    /\ article = Placeholders \o Analysed
    /\ Len(SelectSeq(review.issues, LAMBDA x : x.description = "Found placeholder data")) = 3
    /\ PlaceholderTokens(article) = 3
    /\ ~Includes(article, SourcesHeading)
    /\ review.breakdown.dataQuality = 25
    /\ \E k \in 1..Len(review.issues) :
          review.issues[k] = Issue("critical", "Source Attribution", "Missing Sources section", <<>>)

====
